---- MODULE Spec2Model ----
(***************************************************************************)
(* Model of the monitoring/collection engine of Scct_News: target          *)
(* expansion, keyword filter, per-target pipelines on a bounded thread     *)
(* pool, the News table with its UNIQUE(url) constraint, and the CSV       *)
(* export that ends a cycle.                                               *)
(*                                                                         *)
(* Text (titles, summaries, keyword terms, URL paths) is a sequence of     *)
(* one-character strings so that lower(), strip() and substring tests are  *)
(* computed.  Atomic attributes (media, uf, city, article url) are strings *)
(* and Python's None is the value NONE.                                    *)
(***************************************************************************)
EXTENDS Integers, Sequences, FiniteSets, TLC

\* ------------------------------------------------------------------------
\* Python values
\* ------------------------------------------------------------------------

\* Python's None for an atomic attribute.
NONE == "<null>"

\* Python's None for a text attribute (a sequence no text equals).
NONETEXT == <<NONE>>

\* bool(x) is False for None and for the empty string.
Falsy(x) == x = NONE \/ x = ""

\* x or y
PyOr(x, y) == IF Falsy(x) THEN y ELSE x

\* (text or "")
TextOrEmpty(t) == IF t = NONETEXT THEN <<>> ELSE t

UPPERCASE == <<"A","B","C","D","E","F","G","H","I","J","K","L","M",
               "N","O","P","Q","R","S","T","U","V","W","X","Y","Z">>

LOWERCASE == <<"a","b","c","d","e","f","g","h","i","j","k","l","m",
               "n","o","p","q","r","s","t","u","v","w","x","y","z">>

\* str.lower() of one character
LowerChar(c) ==
    IF \E i \in 1..Len(UPPERCASE) : UPPERCASE[i] = c
    THEN LOWERCASE[CHOOSE i \in 1..Len(UPPERCASE) : UPPERCASE[i] = c]
    ELSE c

\* str.upper() of one character
UpperChar(c) ==
    IF \E i \in 1..Len(LOWERCASE) : LOWERCASE[i] = c
    THEN UPPERCASE[CHOOSE i \in 1..Len(LOWERCASE) : LOWERCASE[i] = c]
    ELSE c

\* str.lower()
Lower(t) == [i \in 1..Len(t) |-> LowerChar(t[i])]

\* str.upper()
Upper(t) == [i \in 1..Len(t) |-> UpperChar(t[i])]

\* needle in haystack (substring test; the empty needle is in every text)
Contains(haystack, needle) ==
    \E s \in 0..(Len(haystack) - Len(needle)) :
        \A j \in 1..Len(needle) : haystack[s + j] = needle[j]

\* a text as an atomic string
RECURSIVE Str(_)
Str(t) == IF t = <<>> THEN "" ELSE Head(t) \o Str(Tail(t))

\* the elements of a sequence
Range(s) == {s[i] : i \in 1..Len(s)}

\* ------------------------------------------------------------------------
\* monitor.py: constants
\* ------------------------------------------------------------------------

UF_CODES == <<"AC", "AL", "AP", "AM", "BA", "CE", "DF", "ES", "GO",
              "MA", "MT", "MS", "MG", "PA", "PB", "PR", "PE", "PI",
              "RJ", "RN", "RS", "RO", "RR", "SC", "SP", "SE", "TO">>

\* media for which _expand_targets_for_monitored fans out by UF
NATIONAL_MEDIA == {"G1", "CNN Brasil", "R7"}

\* run_monitor_cycle(max_workers: int = 6)
DefaultMaxWorkers == 6

\* ------------------------------------------------------------------------
\* monitor.py: _filter_by_keywords
\* ------------------------------------------------------------------------

\* the haystack without the " " between title and summary
HaystackNoSeparator(item) ==
    Lower(TextOrEmpty(item.title) \o TextOrEmpty(item.summary))

\* haystack = ((item.title or "") + " " + (item.summary or "")).lower()
Haystack(item) ==
    Lower(TextOrEmpty(item.title) \o <<" ">> \o TextOrEmpty(item.summary))

\* lowered_keywords = [k.lower() for k in keywords]
LoweredKeywords(keywords) == [k \in 1..Len(keywords) |-> Lower(keywords[k])]

\* any(kw in haystack for kw in lowered_keywords)
MatchesAny(item, lowered_keywords) ==
    \E k \in 1..Len(lowered_keywords) :
        Contains(Haystack(item), lowered_keywords[k])

\* the for loop of _filter_by_keywords
RECURSIVE FilterLoop(_, _)
FilterLoop(items, lowered_keywords) ==
    IF items = <<>> THEN <<>>
    ELSE (IF MatchesAny(Head(items), lowered_keywords)
          THEN <<Head(items)>> ELSE <<>>)
         \o FilterLoop(Tail(items), lowered_keywords)

\* the function without its "if not keywords" early return
FilterFailClosed(items, keywords) ==
    FilterLoop(items, LoweredKeywords(keywords))

_filter_by_keywords(items, keywords) ==
    IF keywords = <<>> THEN items
    ELSE FilterLoop(items, LoweredKeywords(keywords))

\* ------------------------------------------------------------------------
\* url_utils.py: infer_uf_from_url.  A URL is its urlparse() result,
\* [netloc, path], the path a text.
\* ------------------------------------------------------------------------

\* str.lstrip("/")
RECURSIVE LStripSlash(_)
LStripSlash(t) ==
    IF t # <<>> /\ Head(t) = "/" THEN LStripSlash(Tail(t)) ELSE t

\* str.rstrip("/")
RECURSIVE RStripSlash(_)
RStripSlash(t) ==
    IF t # <<>> /\ t[Len(t)] = "/" THEN RStripSlash(SubSeq(t, 1, Len(t) - 1))
    ELSE t

\* str.strip("/")
StripSlash(t) == RStripSlash(LStripSlash(t))

\* str.split("/")[0]
RECURSIVE FirstSegment(_)
FirstSegment(t) ==
    IF t = <<>> \/ Head(t) = "/" THEN <<>>
    ELSE <<Head(t)>> \o FirstSegment(Tail(t))

infer_uf_from_url(url) ==
    LET path == StripSlash(url.path)
        first == FirstSegment(path)
    IN  IF path = <<>> THEN NONE
        ELSE IF Len(first) = 2 THEN Str(Upper(first))
        ELSE NONE

\* ------------------------------------------------------------------------
\* monitor.py: _expand_targets_for_monitored.  A target is the tuple
\* (media, url, uf, city), written as a record.
\* ------------------------------------------------------------------------

Target(media, url, uf, city) ==
    [media |-> media, url |-> url, uf |-> uf, city |-> city]

\* the expansion with the fan-out loop dropped: one target, region unset
ExpandNoFanOut(monitored) ==
    <<Target(monitored.media, monitored.url, monitored.uf, monitored.city)>>

_expand_targets_for_monitored(monitored) ==
    LET media == monitored.media
        url   == monitored.url
        uf    == monitored.uf
        city  == monitored.city
    IN  IF media \in NATIONAL_MEDIA
        THEN IF ~Falsy(uf)
             THEN <<Target(media, url, uf, city)>>
             ELSE [i \in 1..Len(UF_CODES) |-> Target(media, url, UF_CODES[i], city)]
        ELSE <<Target(media, url, PyOr(uf, infer_uf_from_url(url)), city)>>

\* ------------------------------------------------------------------------
\* scrapers/base_scraper.py: NewsItem and the registry
\* ------------------------------------------------------------------------

\* a published_at / created_at that is None (timestamps are positive)
NOTIME == 0

NewsItem(title, url, source, published_at, summary, city, uf, category) ==
    [title |-> title, url |-> url, source |-> source,
     published_at |-> published_at, summary |-> summary,
     city |-> city, uf |-> uf, category |-> category]

\* monitor.SCRAPER_CLASSES: the media with a registered scraper class
SCRAPER_CLASSES == {"G1", "CNN Brasil", "R7"}

\* ------------------------------------------------------------------------
\* scrapers/g1_scraper.py: the card loop of G1Scraper.fetch_from_url.
\* A card of the page is [href, title, summary, dt]: the href of its
\* a.feed-post-link (NONE without link tag or attribute), the texts of the
\* link and of the resumo div (NONETEXT without the div), and the parsed
\* span.feed-post-datetime (NOTIME without the span).
\* ------------------------------------------------------------------------

\* fetch_from_url(self, url, uf=None, limit=100)
G1_LIMIT == 100

RECURSIVE G1CardLoop(_, _, _, _, _, _)
G1CardLoop(cards, items, seen_urls, uf, limit, now) ==
    IF cards = <<>> THEN items
    ELSE LET card == Head(cards)
             rest == Tail(cards)
             link == card.href
         IN  IF Falsy(link) \/ link \in seen_urls
             THEN G1CardLoop(rest, items, seen_urls, uf, limit, now)
             ELSE IF card.title = <<>>
             THEN G1CardLoop(rest, items, seen_urls \cup {link}, uf, limit, now)
             ELSE LET item == NewsItem(card.title, link, "G1",
                                       IF card.dt # NOTIME THEN card.dt ELSE now,
                                       card.summary, NONE, uf, NONE)
                      items2 == Append(items, item)
                  IN  IF Len(items2) >= limit THEN items2
                      ELSE G1CardLoop(rest, items2, seen_urls \cup {link},
                                      uf, limit, now)

\* ------------------------------------------------------------------------
\* models.py / database.py: the news table (SQLite).  A row is a News; the
\* table is the sequence of its rows in id order.
\* ------------------------------------------------------------------------

\* a table without the UNIQUE constraint on url
UrlTakenNever(table, url) == FALSE

\* url = Column(String(500), unique=True, nullable=False, index=True)
UrlTaken(table, url) == \E k \in 1..Len(table) : table[k].url = url

\* the default stored as it was passed
DefaultKept(default) == default

\* (default if default not in ("", "None") else None)
DefaultOrNone(default) ==
    IF default \notin {"", "None"} THEN default ELSE NONE

\* News(...) as built by save_news_items; id and created_at are set by the
\* INSERT (autoincrement rowid, default=utcnow)
NewsRow(item, default_city, default_uf, id, now) ==
    [id |-> id,
     title |-> item.title,
     url |-> item.url,
     summary |-> item.summary,
     source |-> item.source,
     city |-> PyOr(item.city, DefaultOrNone(default_city)),
     uf |-> PyOr(item.uf, DefaultOrNone(default_uf)),
     category |-> item.category,
     published_at |-> item.published_at,
     created_at |-> now]

\* the URLs stored in a table
StoredUrls(table) == {table[k].url : k \in 1..Len(table)}

\* the number of rows of a table with a given url
RowsWithUrl(table, url) ==
    Cardinality({k \in 1..Len(table) : table[k].url = url})

\* ------------------------------------------------------------------------
\* export_for_streamlit.py: the rows and lines of export_news_to_csv
\* ------------------------------------------------------------------------

\* order_by(News.published_at.desc().nullslast(), News.id.desc())
RowBefore(a, b) ==
    IF (a.published_at = NOTIME) # (b.published_at = NOTIME)
    THEN b.published_at = NOTIME
    ELSE IF a.published_at # b.published_at
         THEN a.published_at > b.published_at
         ELSE a.id > b.id

RECURSIVE SortedRows(_)
SortedRows(rows) ==
    IF rows = {} THEN <<>>
    ELSE LET first == CHOOSE r \in rows :
                         \A o \in rows \ {r} : RowBefore(r, o)
         IN  <<first>> \o SortedRows(rows \ {first})

\* session.query(News).order_by(...).all()
QueryAllNews(table) == SortedRows(Range(table))

\* str.strip() of a text (blanks at both ends)
RECURSIVE StripBlanks(_)
StripBlanks(t) ==
    IF t # <<>> /\ Head(t) = " " THEN StripBlanks(Tail(t))
    ELSE IF t # <<>> /\ t[Len(t)] = " "
         THEN StripBlanks(SubSeq(t, 1, Len(t) - 1))
         ELSE t

\* (x or "")
OrEmpty(x) == IF Falsy(x) THEN "" ELSE x

CSV_HEADER ==
    <<"id", "published_at", "title", "url", "source", "uf", "city", "category">>

\* the line written for one News row
CsvLine(n) ==
    <<ToString(n.id),
      IF n.published_at # NOTIME THEN ToString(n.published_at) ELSE "",
      Str(StripBlanks(TextOrEmpty(n.title))),
      OrEmpty(n.url), OrEmpty(n.source), OrEmpty(n.uf), OrEmpty(n.city),
      OrEmpty(n.category)>>

\* the complete file for a table
CsvOf(table) ==
    LET rows == QueryAllNews(table)
    IN  <<CSV_HEADER>> \o [k \in 1..Len(rows) |-> CsvLine(rows[k])]

\* ------------------------------------------------------------------------
\* scrapers/playwright_client.py and the fetch_from_url of the three
\* scrapers. A page is the sequence of the nodes the scraper's selector
\* finds in the HTML, each a card [href, title, summary, dt]; the empty
\* string has no node. The href "ext" is a link outside the media's site.
\* ------------------------------------------------------------------------

\* what happens inside get_page_html
GetPageOutcomes ==
    {"ok", "launch_raises", "goto_timeout", "goto_error", "marker_timeout",
     "content_raises"}

\* get_page_html(url, wait_selector, popup_handler): dom is the document
\* the browser holds when page.content() is called. A failed goto is
\* logged and gives "", a failed wait_for_selector is logged and the
\* content is returned all the same, any other exception leaves the
\* function.
get_page_html(how, dom) ==
    IF how \in {"launch_raises", "content_raises"}
    THEN [raised |-> TRUE, html |-> <<>>]
    ELSE IF how \in {"goto_timeout", "goto_error"}
    THEN [raised |-> FALSE, html |-> <<>>]
    ELSE [raised |-> FALSE, html |-> dom]

\* fetch_from_url(self, url, uf=None, limit=150) of CNNScraper and R7Scraper
CNN_LIMIT == 150
R7_LIMIT == 150
\* if len(title) < 20: continue / if len(title) < 8: continue
CNN_MIN_TITLE == 20
R7_MIN_TITLE == 8

\* CNNScraper: the loop over the anchors whose href begins with the site
RECURSIVE CNNAnchorLoop(_, _, _, _, _, _)
CNNAnchorLoop(anchors, items, seen_urls, uf, limit, now) ==
    IF anchors = <<>> THEN items
    ELSE LET a == Head(anchors)
             rest == Tail(anchors)
         IN  IF Falsy(a.href) \/ a.href \in seen_urls
                \/ a.title = <<>> \/ Len(a.title) < CNN_MIN_TITLE
             THEN CNNAnchorLoop(rest, items, seen_urls, uf, limit, now)
             ELSE LET item == NewsItem(a.title, a.href, "CNN Brasil", now,
                                       NONETEXT, NONE, uf, NONE)
                      more == Append(items, item)
                  IN  IF Len(more) >= limit THEN more
                      ELSE CNNAnchorLoop(rest, more, seen_urls \cup {a.href},
                                         uf, limit, now)

\* R7Scraper: the loop over the nodes with data-tb-title
RECURSIVE R7NodeLoop(_, _, _, _, _, _)
R7NodeLoop(nodes, items, seen_urls, uf, limit, now) ==
    IF nodes = <<>> THEN items
    ELSE LET node == Head(nodes)
             rest == Tail(nodes)
             title == StripBlanks(node.title)
         IN  IF Falsy(node.href) \/ node.href = "ext"
                \/ node.href \in seen_urls
                \/ node.title = <<>> \/ Len(title) < R7_MIN_TITLE
             THEN R7NodeLoop(rest, items, seen_urls, uf, limit, now)
             ELSE LET item == NewsItem(title, node.href, "R7", now, NONETEXT,
                                       NONE, uf, NONE)
                      more == Append(items, item)
                  IN  IF Len(more) >= limit THEN more
                      ELSE R7NodeLoop(rest, more, seen_urls \cup {node.href},
                                      uf, limit, now)

\* the items a scraper takes from the HTML it was given
ParseHtml(media, html, uf, limit, now) ==
    IF media = "G1" THEN G1CardLoop(html, <<>>, {}, uf, limit, now)
    ELSE IF media = "CNN Brasil"
    THEN CNNAnchorLoop(SelectSeq(html, LAMBDA a : a.href \notin {NONE, "ext"}),
                       <<>>, {}, uf, limit, now)
    ELSE R7NodeLoop(html, <<>>, {}, uf, limit, now)

\* the default of the limit parameter of each scraper
DefaultLimit(media) ==
    IF media = "G1" THEN G1_LIMIT
    ELSE IF media = "CNN Brasil" THEN CNN_LIMIT ELSE R7_LIMIT

\* base_url of each scraper class, as urlparse() gives it
BaseUrl(media) ==
    IF media = "G1" THEN [netloc |-> "g1.globo.com", path |-> <<"/">>]
    ELSE IF media = "CNN Brasil"
    THEN [netloc |-> "www.cnnbrasil.com.br", path |-> <<"/">>]
    ELSE [netloc |-> "noticias.r7.com", path |-> <<"/">>]

\* r7_scraper.R7_STATE_SLUGS
R7_STATE_SLUGS ==
    [AC |-> <<"a","c","r","e">>,
     AL |-> <<"a","l","a","g","o","a","s">>,
     AP |-> <<"a","m","a","p","a">>,
     AM |-> <<"a","m","a","z","o","n","a","s">>,
     BA |-> <<"b","a","h","i","a">>,
     CE |-> <<"c","e","a","r","a">>,
     DF |-> <<"d","i","s","t","r","i","t","o","-","f","e","d","e","r","a","l">>,
     ES |-> <<"e","s","p","i","r","i","t","o","-","s","a","n","t","o">>,
     GO |-> <<"g","o","i","a","s">>,
     MA |-> <<"m","a","r","a","n","h","a","o">>,
     MT |-> <<"m","a","t","o","-","g","r","o","s","s","o">>,
     MS |-> <<"m","a","t","o","-","g","r","o","s","s","o","-","d","o","-","s","u","l">>,
     MG |-> <<"m","i","n","a","s","-","g","e","r","a","i","s">>,
     PA |-> <<"p","a","r","a">>,
     PB |-> <<"p","a","r","a","i","b","a">>,
     PR |-> <<"p","a","r","a","n","a">>,
     PE |-> <<"p","e","r","n","a","m","b","u","c","o">>,
     PI |-> <<"p","i","a","u","i">>,
     RJ |-> <<"r","i","o","-","d","e","-","j","a","n","e","i","r","o">>,
     RN |-> <<"r","i","o","-","g","r","a","n","d","e","-","d","o","-","n","o","r","t","e">>,
     RS |-> <<"r","i","o","-","g","r","a","n","d","e","-","d","o","-","s","u","l">>,
     RO |-> <<"r","o","n","d","o","n","i","a">>,
     RR |-> <<"r","o","r","a","i","m","a">>,
     SC |-> <<"s","a","n","t","a","-","c","a","t","a","r","i","n","a">>,
     SP |-> <<"s","a","o","-","p","a","u","l","o">>,
     SE |-> <<"s","e","r","g","i","p","e">>,
     TO |-> <<"t","o","c","a","n","t","i","n","s">>]

\* the scheme of a URL: https unless the URL names another
Scheme(url) == IF "scheme" \in DOMAIN url THEN url.scheme ELSE "https"

\* the characters of a region string
UfText(uf) ==
    CHOOSE t \in {<<a, b>> : a, b \in Range(UPPERCASE) \cup Range(LOWERCASE)} :
        Str(t) = uf

\* url.rstrip("/") in {base_domain, ...}: the URL is the scraper's base URL
\* with any number of trailing slashes (base_domain.replace("www.", "") of
\* the R7 base, which has no "www.", is the base again)
IsBareBase(media, url) ==
    /\ Scheme(url) = "https"
    /\ url.netloc = BaseUrl(media).netloc
    /\ RStripSlash(url.path) = <<>>

\* the rewriting of every URL that comes with a region
FetchUrlAlwaysRewrites(media, url, uf) ==
    IF Falsy(uf) THEN url
    ELSE [netloc |-> BaseUrl(media).netloc,
          path |-> <<"/">> \o Lower(UfText(uf))]

\* the URL fetch_from_url hands to get_page_html: with a region and the
\* bare base URL, the page of the region (G1 base/uf, CNN base/uf/, R7
\* base/slug when the region has a slug); the URL as passed otherwise
FetchUrl(media, url, uf) ==
    IF Falsy(uf) \/ ~IsBareBase(media, url) THEN url
    ELSE IF media = "G1"
    THEN [netloc |-> BaseUrl(media).netloc,
          path |-> <<"/">> \o Lower(UfText(uf))]
    ELSE IF media = "CNN Brasil"
    THEN [netloc |-> BaseUrl(media).netloc,
          path |-> <<"/">> \o Lower(UfText(uf)) \o <<"/">>]
    ELSE IF Str(Upper(UfText(uf))) \in DOMAIN R7_STATE_SLUGS
    THEN [netloc |-> BaseUrl(media).netloc,
          path |-> <<"/">> \o R7_STATE_SLUGS[Str(Upper(UfText(uf)))]]
    ELSE url

\* fetch_from_url with get_page_html called outside any try: its
\* exception reaches the caller
FetchFromUrlNoTry(media, url, uf, limit, how, dom, now) ==
    LET got == get_page_html(how, dom)
    IN  IF got.raised
        THEN [raised |-> TRUE, items |-> <<>>,
              fetched |-> FetchUrl(media, url, uf)]
        ELSE [raised |-> FALSE, fetched |-> FetchUrl(media, url, uf),
              items |-> ParseHtml(media, got.html, uf, limit, now)]

\* fetch_from_url(url, uf, limit) of the scraper of this media: the URL
\* rewriting, get_page_html inside try/except Exception (return []), then
\* the loop over the parsed HTML
fetch_from_url(media, url, uf, limit, how, dom, now) ==
    LET got == get_page_html(how, dom)
    IN  IF got.raised
        THEN [raised |-> FALSE, items |-> <<>>,
              fetched |-> FetchUrl(media, url, uf)]
        ELSE [raised |-> FALSE, fetched |-> FetchUrl(media, url, uf),
              items |-> ParseHtml(media, got.html, uf, limit, now)]

\* ------------------------------------------------------------------------
\* Inputs: the texts, pages, batches and tables the model draws from
\* ------------------------------------------------------------------------

TXT_ENCHENTE_SP == <<"E", "n", "c", "h", "e", "n", "t", "e", " ", "e", "m", " ", "S", "P">>
TXT_CHUVA_SAO == <<"C", "h", "u", "v", "a", " ", "e", "m", " ", "S", "a", "o">>
TXT_PAULO_ALAGA == <<"P", "a", "u", "l", "o", " ", "a", "l", "a", "g", "a">>
TXT_SOL == <<"S", "o", "l">>

KW_ENCHENTE == <<"e", "n", "c", "h", "e", "n", "t", "e">>
KW_TERREMOTO == <<"t", "e", "r", "r", "e", "m", "o", "t", "o">>
KW_SAO_PAULO == <<"s", "a", "o", " ", "p", "a", "u", "l", "o">>
KW_SOL_UPPER == <<"S", "O", "L">>

URL_G1_BASE == [netloc |-> "g1.globo.com", path |-> <<"/">>]
URL_G1_RJ == [netloc |-> "g1.globo.com", path |-> <<"/", "r", "j", "/">>]
URL_DIGITS == [netloc |-> "jornallocal.com.br", path |-> <<"/", "2", "4", "/", "h", "o", "r", "a", "s">>]
URL_SECTION == [netloc |-> "jornallocal.com.br", path |-> <<"/", "e", "s", "p", "o", "r", "t", "e", "s", "/", "s", "p">>]
URL_G1_POLITICA ==
    [netloc |-> "g1.globo.com",
     path |-> <<"/", "p", "o", "l", "i", "t", "i", "c", "a">>]
URL_LOCAL == [netloc |-> "jornallocal.com.br", path |-> <<"/", "s", "p", "/", "c", "i", "d", "a", "d", "e">>]

Card(href, title, summary, dt) ==
    [href |-> href, title |-> title, summary |-> summary, dt |-> dt]

\* pages a G1 listing may show
PAGE_EMPTY == <<>>
PAGE_ONE == <<Card("u1", TXT_ENCHENTE_SP, <<>>, 2)>>
PAGE_TWO == <<Card("u1", TXT_ENCHENTE_SP, <<>>, 2),
              Card("u2", TXT_SOL, NONETEXT, NOTIME)>>
PAGE_REPEAT == <<Card("u2", TXT_ENCHENTE_SP, NONETEXT, 3),
                 Card(NONE, TXT_SOL, NONETEXT, NOTIME),
                 Card("u2", TXT_SOL, NONETEXT, 1),
                 Card("u1", TXT_CHUVA_SAO, TXT_PAULO_ALAGA, NOTIME)>>
Pages == {PAGE_EMPTY, PAGE_ONE, PAGE_TWO, PAGE_REPEAT}

\* a title of 24 characters and the documents a site may hold when
\* fetch_from_url is called directly
TXT_CHUVA_SAO_PAULO == TXT_CHUVA_SAO \o <<" ">> \o TXT_PAULO_ALAGA
PAGE_HEADLINES == <<Card("u1", TXT_CHUVA_SAO_PAULO, NONETEXT, NOTIME),
                    Card("ext", TXT_CHUVA_SAO_PAULO, NONETEXT, NOTIME),
                    Card("u2", <<" ">> \o TXT_ENCHENTE_SP, NONETEXT, NOTIME),
                    Card("u1", TXT_CHUVA_SAO_PAULO, NONETEXT, NOTIME)>>
FetchPages == Pages \cup {PAGE_HEADLINES}

\* the URLs, regions and limits fetch_from_url is called with
URL_G1_BARE == [netloc |-> "g1.globo.com", path |-> <<>>]
URL_G1_HTTP == [scheme |-> "http", netloc |-> "g1.globo.com", path |-> <<"/">>]
URL_CNN_BASE == [netloc |-> "www.cnnbrasil.com.br", path |-> <<"/">>]
URL_R7_BASE == [netloc |-> "noticias.r7.com", path |-> <<"/", "/">>]
FetchUrls ==
    {URL_G1_BASE, URL_G1_BARE, URL_G1_RJ, URL_G1_HTTP, URL_CNN_BASE,
     URL_R7_BASE}
FetchUfs == {NONE, "", "SP", "rj", "XX"}
MaxLimit == 2

\* the monitored_urls table the management UI has filled (is_active is
\* chosen per row)
MonitoredRow(id, url, media, uf, city, is_active) ==
    [id |-> id, url |-> url, media |-> media, uf |-> uf, city |-> city,
     is_active |-> is_active]

MonitoredTables ==
    {<<MonitoredRow(1, URL_G1_BASE, "G1", "SP", NONE, a1),
       MonitoredRow(2, URL_G1_RJ, "G1", "RJ", "Rio", a2),
       MonitoredRow(3, URL_LOCAL, "Jornal Local", NONE, "Santos", a3)>> :
        a1 \in BOOLEAN, a2 \in BOOLEAN, a3 \in BOOLEAN}

\* the keywords table
KeywordRow(id, term, is_active) ==
    [id |-> id, term |-> term, is_active |-> is_active]

KeywordTables == {<<KeywordRow(1, KW_ENCHENTE, a)>> : a \in BOOLEAN}

\* the news table left by earlier cycles
PRIOR_ROW ==
    [id |-> 1, title |-> TXT_SOL, url |-> "u1", summary |-> NONETEXT,
     source |-> "G1", city |-> NONE, uf |-> "MG", category |-> NONE,
     published_at |-> 1, created_at |-> 0]

PriorTables == {<<>>, <<PRIOR_ROW>>}

\* max_workers as callers pass it
WorkerLimits == {1, 2, DefaultMaxWorkers}

\* number of cycles a behaviour runs
MaxCycles == 1

\* candidates handed to save_news_items
IT_U1 == NewsItem(TXT_ENCHENTE_SP, "u1", "G1", 2, <<>>, NONE, NONE, NONE)
IT_U1_ALT == NewsItem(TXT_SOL, "u1", "R7", NOTIME, NONETEXT, "Rio", "RJ", NONE)
IT_U2 == NewsItem(TXT_SOL, "u2", "G1", 1, NONETEXT, NONE, "", NONE)
IT_EMPTY_URL == NewsItem(TXT_SOL, "", "G1", 1, NONETEXT, NONE, NONE, NONE)

Batches ==
    {<<>>, <<IT_U1>>, <<IT_U1, IT_U2>>, <<IT_EMPTY_URL, IT_U2>>,
     <<IT_U1, IT_U1_ALT, IT_U2>>, <<IT_U2, IT_U1_ALT>>}

\* targets whose city and uf are the defaults of a save_news_items call
SaveTargets ==
    {Target("G1", URL_G1_BASE, "SP", NONE),
     Target("R7", URL_G1_RJ, "", "Santos"),
     Target("CNN Brasil", URL_G1_BASE, NONE, "None")}

\* number of workers calling save_news_items concurrently
MaxCallers == 2

\* candidates and keyword lists handed to _filter_by_keywords
FilterItems ==
    {NewsItem(TXT_ENCHENTE_SP, "u1", "G1", 2, <<>>, NONE, NONE, NONE),
     NewsItem(TXT_CHUVA_SAO, "u2", "G1", 1, TXT_PAULO_ALAGA, NONE, NONE, NONE),
     NewsItem(TXT_SOL, "u3", "G1", 1, NONETEXT, NONE, NONE, NONE)}

KeywordLists ==
    {<<>>, <<KW_ENCHENTE>>, <<KW_TERREMOTO>>, <<KW_SAO_PAULO>>,
     <<KW_SOL_UPPER>>, <<KW_TERREMOTO, KW_SOL_UPPER>>}

\* length of the candidate sequences handed to _filter_by_keywords
MaxItems == 2

\* sequences over a set, of length at most n
RECURSIVE SeqsUpTo(_, _)
SeqsUpTo(S, n) ==
    IF n = 0 THEN {<<>>}
    ELSE LET shorter == SeqsUpTo(S, n - 1)
         IN  shorter \cup {Append(q, x) : q \in shorter, x \in S}

\* sources handed to _expand_targets_for_monitored
MonitoredInputs ==
    {MonitoredRow(1, url, media, uf, city, TRUE) :
        url \in {URL_G1_BASE, URL_G1_RJ, URL_G1_POLITICA, URL_LOCAL, URL_DIGITS,
                 URL_SECTION},
        media \in {"G1", "CNN Brasil", "R7", "Jornal Local"},
        uf \in {NONE, "", "SP"},
        city \in {NONE, "Santos"}}

\* ------------------------------------------------------------------------
\* State
\* ------------------------------------------------------------------------

VARIABLES
    news,             \* table news
    monitored_table,  \* table monitored_urls
    keyword_table,    \* table keywords
    csv,              \* dashboard/data/news_latest.csv: [open, lines]
    pc,               \* where run_monitor_cycle is
    max_workers,      \* its argument
    monitored_urls,   \* its local: the active rows read
    targets,          \* its local: the expanded targets
    keywords,         \* its local: the active terms read
    tasks,            \* the futures of the pool, in submission order
    exp,              \* export_news_to_csv: [pc, rows, k]
    phases,           \* the phases the current call has entered, in order
    outcome,          \* how the last call ended: none, running, returned, raised
    exported,         \* whether the current call has invoked the export
    cycleNo,          \* number of calls begun (also the reading of utcnow())
    call,             \* the last direct call of a pure function
    at_start,         \* the active sources and terms when the current call
                      \* of run_monitor_cycle made its first query
    requests,         \* number of requests the management UI has handled
    inflight,         \* calls of run_monitor_cycle in progress, per trigger
    flag,             \* whether the file trigger_monitor.flag exists
    daemon,           \* monitor_daemon.main: position and counts
    reg               \* base_scraper: the dict objects of the process (the
                      \* first is _SCRAPER_REGISTRY), the dicts returned by
                      \* get_scraper_classes, the registrations made, and
                      \* whether the modules of scrapers/ are imported

\* the triggers of a cycle
Triggers == {"scheduler", "web", "daemon"}

trigVars == <<inflight, flag, daemon>>

\* _SCRAPER_REGISTRY = {} when base_scraper has been loaded
RegistryEmpty ==
    [dicts |-> << <<>> >>, returned |-> <<>>, history |-> <<>>,
     imported |-> FALSE]

\* nothing has triggered a cycle; the daemon is at the top of its loop
TriggersIdle ==
    /\ reg = RegistryEmpty
    /\ inflight = [tr \in Triggers |-> 0]
    /\ flag = FALSE
    /\ daemon = [pc |-> "check", seen |-> 0, removed |-> 0, runs |-> 0]

vars == <<news, monitored_table, keyword_table, csv, pc, max_workers,
          monitored_urls, targets, keywords, tasks, exp, phases, outcome,
          exported, cycleNo, call, at_start, requests, trigVars, reg>>

dbVars == <<monitored_table, keyword_table>>
cycleLocals == <<max_workers, monitored_urls, targets, keywords>>

\* the pcs of a task that a pool thread is executing
RunningPcs == {"resolve", "extract", "filter", "persist"}

Running == {t \in 1..Len(tasks) : tasks[t].pc \in RunningPcs}

AllDone == \A t \in 1..Len(tasks) : tasks[t].pc = "done"

NewTask(target) ==
    [target |-> target, pc |-> "queued", items |-> <<>>, filtered |-> <<>>,
     i |-> 1, result |-> "none", fault |-> FALSE, stages |-> <<>>]
\* stages: the stages of the pipeline the task has begun, in order

ExpIdle == [pc |-> "idle", rows |-> <<>>, k |-> 0]

NoSnapshot == [sources |-> <<>>, keywords |-> <<>>]

Init ==
    /\ news \in PriorTables
    /\ monitored_table \in MonitoredTables
    /\ keyword_table \in KeywordTables
    /\ csv = [open |-> FALSE, lines |-> CsvOf(news)]
    /\ pc = "Idle"
    /\ max_workers = DefaultMaxWorkers
    /\ monitored_urls = <<>>
    /\ targets = <<>>
    /\ keywords = <<>>
    /\ tasks = <<>>
    /\ exp = ExpIdle
    /\ phases = <<>>
    /\ outcome = "none"
    /\ exported = FALSE
    /\ cycleNo = 0
    /\ call = [fn |-> "none"]
    /\ at_start = NoSnapshot
    /\ requests = 0
    /\ TriggersIdle

\* ------------------------------------------------------------------------
\* monitor.py: save_news_items, one loop iteration per step, run by task t
\* with the batch tasks[t].filtered and the target's city and uf as defaults
\* ------------------------------------------------------------------------

SetTask(t, new) == tasks' = [tasks EXCEPT ![t] = new]

SaveItem(t) == tasks[t].filtered[tasks[t].i]

InSaveLoop(t) ==
    /\ t \in 1..Len(tasks)
    /\ tasks[t].pc = "persist"
    /\ tasks[t].i <= Len(tasks[t].filtered)

NextItem(t) == SetTask(t, [tasks[t] EXCEPT !.i = @ + 1])

\* if not item.url: continue
SaveSkipEmptyUrl(t) ==
    /\ InSaveLoop(t)
    /\ Falsy(SaveItem(t).url)
    /\ NextItem(t)
    /\ UNCHANGED news

\* session.add(news) with the commit left to the end of the batch: the row
\* is pending, not stored, when the loop goes on
SaveInsertUncommitted(t) ==
    /\ InSaveLoop(t)
    /\ ~Falsy(SaveItem(t).url)
    /\ ~UrlTaken(news, SaveItem(t).url)
    /\ NextItem(t)
    /\ UNCHANGED news

\* the insert of a row that leaves region and locality out
SaveInsertNoRegion(t) ==
    /\ InSaveLoop(t)
    /\ ~Falsy(SaveItem(t).url)
    /\ ~UrlTaken(news, SaveItem(t).url)
    /\ news' = Append(news, [NewsRow(SaveItem(t), NONE, NONE, Len(news) + 1,
                                     cycleNo)
                                EXCEPT !.uf = NONE, !.city = NONE])
    /\ NextItem(t)

\* session.add(news); session.commit() succeeds
SaveInsert(t) ==
    /\ InSaveLoop(t)
    /\ ~Falsy(SaveItem(t).url)
    /\ ~UrlTaken(news, SaveItem(t).url)
    /\ news' = Append(news, NewsRow(SaveItem(t), tasks[t].target.city,
                                    tasks[t].target.uf, Len(news) + 1, cycleNo))
    /\ NextItem(t)

\* the IntegrityError handled like any other exception: rollback, re-raise
SaveDuplicateRaises(t) ==
    /\ InSaveLoop(t)
    /\ ~Falsy(SaveItem(t).url)
    /\ UrlTaken(news, SaveItem(t).url)
    /\ SetTask(t, [tasks[t] EXCEPT !.pc = "done", !.result = "persist_raised"])
    /\ UNCHANGED news

\* the IntegrityError ending the loop (break) instead of going on
SaveDuplicateBreaks(t) ==
    /\ InSaveLoop(t)
    /\ ~Falsy(SaveItem(t).url)
    /\ UrlTaken(news, SaveItem(t).url)
    /\ SetTask(t, [tasks[t] EXCEPT !.pc = "done", !.result = "ok"])
    /\ UNCHANGED news

\* the candidate merged into the stored row with its URL: the row takes
\* the candidate's attributes
SaveDuplicateUpserts(t) ==
    /\ InSaveLoop(t)
    /\ ~Falsy(SaveItem(t).url)
    /\ UrlTaken(news, SaveItem(t).url)
    /\ NextItem(t)
    /\ news' = [k \in 1..Len(news) |->
                  IF news[k].url = SaveItem(t).url
                  THEN NewsRow(SaveItem(t), tasks[t].target.city,
                               tasks[t].target.uf, news[k].id, cycleNo)
                  ELSE news[k]]

\* commit raises IntegrityError (UNIQUE url): rollback and go on
SaveDuplicate(t) ==
    /\ InSaveLoop(t)
    /\ ~Falsy(SaveItem(t).url)
    /\ UrlTaken(news, SaveItem(t).url)
    /\ NextItem(t)
    /\ UNCHANGED news

\* the other exception handled like the IntegrityError: rollback and go on
SaveOtherErrorSwallowed(t) ==
    /\ InSaveLoop(t)
    /\ ~Falsy(SaveItem(t).url)
    /\ SetTask(t, [tasks[t] EXCEPT !.i = @ + 1, !.fault = TRUE])
    /\ UNCHANGED news

\* commit raises another exception: rollback, log, re-raise; the finally
\* closes the session and _run_scraper_target's except logs it
SaveOtherError(t) ==
    /\ InSaveLoop(t)
    /\ ~Falsy(SaveItem(t).url)
    /\ SetTask(t, [tasks[t] EXCEPT !.pc = "done", !.result = "persist_raised",
                                   !.fault = TRUE])
    /\ UNCHANGED news

\* the loop ends: session.close(), return
SaveReturn(t) ==
    /\ t \in 1..Len(tasks)
    /\ tasks[t].pc = "persist"
    /\ tasks[t].i > Len(tasks[t].filtered)
    /\ SetTask(t, [tasks[t] EXCEPT !.pc = "done", !.result = "ok"])
    /\ UNCHANGED news

save_news_items(t) ==
    /\ \/ SaveSkipEmptyUrl(t)
       \/ SaveInsert(t)
       \/ SaveDuplicate(t)
       \/ SaveOtherError(t)
       \/ SaveReturn(t)
    /\ UNCHANGED <<dbVars, csv, pc, cycleLocals, exp, phases, outcome,
                   exported, cycleNo, call, at_start, requests, trigVars, reg>>

\* ------------------------------------------------------------------------
\* The queries of the active rows
\* ------------------------------------------------------------------------

\* rows of a table with is_active, in id order
RECURSIVE ActiveRows(_)
ActiveRows(table) ==
    IF table = <<>> THEN <<>>
    ELSE (IF Head(table).is_active THEN <<Head(table)>> ELSE <<>>)
         \o ActiveRows(Tail(table))

\* _get_active_keywords: [k.term for k in rows]
ActiveTerms(table) ==
    LET rows == ActiveRows(table)
    IN  [k \in 1..Len(rows) |-> rows[k].term]

\* ------------------------------------------------------------------------
\* monitor.py: _run_scraper_target, run by a thread of the pool
\* ------------------------------------------------------------------------

taskFrame == <<news, dbVars, csv, pc, cycleLocals, exp, phases, outcome,
               exported, cycleNo, call, at_start, requests, trigVars, reg>>

\* a pool that starts a thread for every queued work item
PoolHasFreeThreadAlways(limit) == TRUE

\* ThreadPoolExecutor(max_workers=max_workers): a queued work item is taken
\* only by one of at most max_workers threads, each running one item at a time
PoolHasFreeThread(limit) == Cardinality(Running) < limit

\* a thread takes the oldest queued work item and calls
\* _run_scraper_target(media, url, uf, city, keywords)
StartTask(t) ==
    /\ t \in 1..Len(tasks)
    /\ tasks[t].pc = "queued"
    /\ \A o \in 1..(t - 1) : tasks[o].pc # "queued"
    /\ PoolHasFreeThread(max_workers)
    /\ SetTask(t, [tasks[t] EXCEPT !.pc = "resolve"])
    /\ UNCHANGED taskFrame

\* the pipeline going on to the extractor whatever the media
ResolveNoCheck(t) ==
    /\ t \in 1..Len(tasks)
    /\ tasks[t].pc = "resolve"
    /\ SetTask(t, [tasks[t] EXCEPT !.pc = "extract",
                                   !.stages = Append(@, "extract")])
    /\ UNCHANGED taskFrame

\* scraper_cls = SCRAPER_CLASSES.get(media); if not scraper_cls: return
Resolve(t) ==
    /\ t \in 1..Len(tasks)
    /\ tasks[t].pc = "resolve"
    /\ IF tasks[t].target.media \in SCRAPER_CLASSES
       THEN SetTask(t, [tasks[t] EXCEPT !.pc = "extract",
                                        !.stages = Append(@, "extract")])
       ELSE SetTask(t, [tasks[t] EXCEPT !.pc = "done", !.result = "skipped"])
    /\ UNCHANGED taskFrame

\* items = scraper.fetch_from_url(url, uf=uf) returns the items of the page
\* the site shows (an empty list when get_page_html fails)
Extract(t) ==
    /\ t \in 1..Len(tasks)
    /\ tasks[t].pc = "extract"
    /\ \E page \in Pages :
          SetTask(t, [tasks[t] EXCEPT
              !.pc = "filter",
              !.stages = Append(@, "filter"),
              !.items = G1CardLoop(page, <<>>, {}, tasks[t].target.uf,
                                   G1_LIMIT, cycleNo)])
    /\ UNCHANGED taskFrame

\* fetch_from_url raises with no try/except around the pipeline: the
\* exception reaches fut.result() and leaves run_monitor_cycle
ExtractRaisesUncaught(t) ==
    /\ t \in 1..Len(tasks)
    /\ tasks[t].pc = "extract"
    /\ SetTask(t, [tasks[t] EXCEPT !.pc = "done", !.result = "extract_raised"])
    /\ pc' = "Idle"
    /\ outcome' = "raised"
    /\ UNCHANGED <<news, dbVars, csv, cycleLocals, exp, phases, exported,
                   cycleNo, call, at_start, requests, trigVars, reg>>

\* fetch_from_url raises and the target is put back in the queue
ExtractRaisesRequeued(t) ==
    /\ t \in 1..Len(tasks)
    /\ tasks[t].pc = "extract"
    /\ SetTask(t, [tasks[t] EXCEPT !.pc = "queued"])
    /\ UNCHANGED taskFrame

\* fetch_from_url raises: the except of _run_scraper_target logs it
ExtractRaises(t) ==
    /\ t \in 1..Len(tasks)
    /\ tasks[t].pc = "extract"
    /\ SetTask(t, [tasks[t] EXCEPT !.pc = "done", !.result = "extract_raised"])
    /\ UNCHANGED taskFrame

\* the worker filtering with the terms active in the table when it runs
FilterReadsTable(t) ==
    /\ t \in 1..Len(tasks)
    /\ tasks[t].pc = "filter"
    /\ SetTask(t, [tasks[t] EXCEPT
           !.pc = "persist",
           !.stages = Append(@, "persist"),
           !.filtered = _filter_by_keywords(tasks[t].items,
                                            ActiveTerms(keyword_table)),
           !.i = 1])
    /\ UNCHANGED taskFrame

\* filtered_items = _filter_by_keywords(items, keywords)
Filter(t) ==
    /\ t \in 1..Len(tasks)
    /\ tasks[t].pc = "filter"
    /\ SetTask(t, [tasks[t] EXCEPT
           !.pc = "persist",
           !.stages = Append(@, "persist"),
           !.filtered = _filter_by_keywords(tasks[t].items, keywords),
           !.i = 1])
    /\ UNCHANGED taskFrame

_run_scraper_target(t) ==
    \/ Resolve(t)
    \/ Extract(t)
    \/ ExtractRaises(t)
    \/ Filter(t)
    \/ save_news_items(t)

\* ------------------------------------------------------------------------
\* monitor.py: run_monitor_cycle
\* ------------------------------------------------------------------------

\* for mon in monitored_urls: targets.extend(_expand_targets_for_monitored(mon))
RECURSIVE ExpandAll(_)
ExpandAll(rows) ==
    IF rows = <<>> THEN <<>>
    ELSE _expand_targets_for_monitored(Head(rows)) \o ExpandAll(Tail(rows))

\* a caller (scheduler job, POST /run-monitor, __main__) calls
\* run_monitor_cycle(max_workers); the callers go on calling after a cycle
\* that raised (one more invocation is explored then)
Invoke ==
    /\ pc = "Idle"
    /\ \/ cycleNo < MaxCycles
       \/ outcome = "raised" /\ cycleNo < MaxCycles + 1
    /\ \E limit \in WorkerLimits : max_workers' = limit
    /\ pc' = "LoadingConfig"
    /\ phases' = <<"LoadingConfig">>
    /\ outcome' = "running"
    /\ exported' = FALSE
    /\ cycleNo' = cycleNo + 1
    /\ monitored_urls' = <<>>
    /\ targets' = <<>>
    /\ keywords' = <<>>
    /\ tasks' = <<>>
    /\ exp' = ExpIdle
    /\ at_start' = NoSnapshot
    /\ UNCHANGED <<news, dbVars, csv, call, requests, trigVars, reg>>

\* the query of the active MonitoredURL rows; "if not monitored_urls: return"
LoadSources ==
    /\ pc = "LoadingConfig"
    /\ monitored_urls' = ActiveRows(monitored_table)
    /\ IF monitored_urls' = <<>>
       THEN /\ pc' = "Idle"
            /\ outcome' = "returned"
            /\ UNCHANGED phases
       ELSE /\ pc' = "Expanding"
            /\ phases' = Append(phases, "Expanding")
            /\ UNCHANGED outcome
    /\ at_start' = [sources |-> ActiveRows(monitored_table),
                    keywords |-> ActiveTerms(keyword_table)]
    /\ UNCHANGED <<news, dbVars, csv, max_workers, targets, keywords, tasks,
                   exp, exported, cycleNo, call, requests, trigVars, reg>>

\* the failure of the query taking the process down with the cycle
LoadFailsFatal ==
    /\ pc \in {"LoadingConfig", "LoadingKeywords"}
    /\ pc' = "Dead"
    /\ outcome' = "raised"
    /\ UNCHANGED <<news, dbVars, csv, cycleLocals, tasks, exp, phases,
                   exported, cycleNo, call, at_start, requests, trigVars, reg>>

\* the query of the sources or of the keywords raises: the exception leaves
\* run_monitor_cycle
LoadFails ==
    /\ pc \in {"LoadingConfig", "LoadingKeywords"}
    /\ pc' = "Idle"
    /\ outcome' = "raised"
    /\ UNCHANGED <<news, dbVars, csv, cycleLocals, tasks, exp, phases,
                   exported, cycleNo, call, at_start, requests, trigVars, reg>>

Expand ==
    /\ pc = "Expanding"
    /\ targets' = ExpandAll(monitored_urls)
    /\ pc' = "LoadingKeywords"
    /\ UNCHANGED <<news, dbVars, csv, max_workers, monitored_urls, keywords,
                   tasks, exp, phases, outcome, exported, cycleNo, call,
                   at_start, requests, trigVars, reg>>

\* keywords = _get_active_keywords()
LoadKeywords ==
    /\ pc = "LoadingKeywords"
    /\ keywords' = ActiveTerms(keyword_table)
    /\ pc' = "Dispatching"
    /\ phases' = Append(phases, "Dispatching")
    /\ UNCHANGED <<news, dbVars, csv, max_workers, monitored_urls, targets,
                   tasks, exp, outcome, exported, cycleNo, call, at_start,
                   requests, trigVars, reg>>

\* futures.append(executor.submit(_run_scraper_target, ...)) for the next
\* target; after the last one the as_completed loop begins
Submit ==
    /\ pc = "Dispatching"
    /\ Len(tasks) < Len(targets)
    /\ tasks' = Append(tasks, NewTask(targets[Len(tasks) + 1]))
    /\ IF Len(tasks') = Len(targets)
       THEN /\ pc' = "Aggregating"
            /\ phases' = Append(phases, "Aggregating")
       ELSE UNCHANGED <<pc, phases>>
    /\ UNCHANGED <<news, dbVars, csv, cycleLocals, exp, outcome, exported,
                   cycleNo, call, at_start, requests, trigVars, reg>>

\* a barrier that lets the cycle go on with futures still pending
BarrierOpenAlways == TRUE

\* the as_completed loop and the exit of the "with ThreadPoolExecutor" block
\* (shutdown(wait=True)) return when every future is done
BarrierOpen == AllDone

\* the cycle returning after the pool block without the export
AggregateNoExport ==
    /\ pc = "Aggregating"
    /\ BarrierOpen
    /\ pc' = "Idle"
    /\ outcome' = "returned"
    /\ UNCHANGED <<news, dbVars, csv, cycleLocals, tasks, exp, phases,
                   exported, cycleNo, call, at_start, requests, trigVars, reg>>

\* the cycle leaves the pool block and calls export_news_to_csv()
Aggregate ==
    /\ pc = "Aggregating"
    /\ BarrierOpen
    /\ pc' = "Exporting"
    /\ phases' = Append(phases, "Exporting")
    /\ exported' = TRUE
    /\ exp' = [pc |-> "query", rows |-> <<>>, k |-> 0]
    /\ UNCHANGED <<news, dbVars, csv, cycleLocals, tasks, outcome, cycleNo,
                   call, at_start, requests, trigVars, reg>>

\* ------------------------------------------------------------------------
\* export_for_streamlit.py: export_news_to_csv, called by run_monitor_cycle
\* inside try/except Exception
\* ------------------------------------------------------------------------

exportFrame == <<news, dbVars, cycleLocals, tasks, phases, exported, cycleNo,
                 call, at_start, requests, trigVars, reg>>

\* rows = session.query(News).order_by(...).all()
ExportQuery ==
    /\ pc = "Exporting"
    /\ exp.pc = "query"
    /\ exp' = [pc |-> "open", rows |-> QueryAllNews(news), k |-> 0]
    /\ UNCHANGED <<csv, pc, outcome>>
    /\ UNCHANGED exportFrame

\* DASHBOARD_CSV_PATH.open("w", ...) truncates the file
ExportOpen ==
    /\ pc = "Exporting"
    /\ exp.pc = "open"
    /\ csv' = [open |-> TRUE, lines |-> <<>>]
    /\ exp' = [exp EXCEPT !.pc = "write"]
    /\ UNCHANGED <<pc, outcome>>
    /\ UNCHANGED exportFrame

\* writer.writerow: the header first, then one line per row
ExportWrite ==
    /\ pc = "Exporting"
    /\ exp.pc = "write"
    /\ exp.k <= Len(exp.rows)
    /\ csv' = [csv EXCEPT !.lines =
                  Append(@, IF exp.k = 0 THEN CSV_HEADER
                            ELSE CsvLine(exp.rows[exp.k]))]
    /\ exp' = [exp EXCEPT !.k = @ + 1]
    /\ UNCHANGED <<pc, outcome>>
    /\ UNCHANGED exportFrame

\* the with block closes the file, the function returns len(rows) and
\* run_monitor_cycle returns
ExportClose ==
    /\ pc = "Exporting"
    /\ exp.pc = "write"
    /\ exp.k > Len(exp.rows)
    /\ csv' = [csv EXCEPT !.open = FALSE]
    /\ exp' = [exp EXCEPT !.pc = "done"]
    /\ pc' = "Idle"
    /\ outcome' = "returned"
    /\ UNCHANGED exportFrame

\* export_news_to_csv raises with no try/except around it: the exception
\* leaves run_monitor_cycle
ExportFailsUncaught ==
    /\ pc = "Exporting"
    /\ exp.pc \in {"query", "open", "write"}
    /\ csv' = [csv EXCEPT !.open = FALSE]
    /\ exp' = [exp EXCEPT !.pc = "failed"]
    /\ pc' = "Idle"
    /\ outcome' = "raised"
    /\ UNCHANGED exportFrame

\* export_news_to_csv raises (query, open or write fails): the except of
\* run_monitor_cycle logs it and the cycle returns
ExportFails ==
    /\ pc = "Exporting"
    /\ exp.pc \in {"query", "open", "write"}
    /\ csv' = [csv EXCEPT !.open = FALSE]
    /\ exp' = [exp EXCEPT !.pc = "failed"]
    /\ pc' = "Idle"
    /\ outcome' = "returned"
    /\ UNCHANGED exportFrame

export_news_to_csv ==
    \/ ExportQuery
    \/ ExportOpen
    \/ ExportWrite
    \/ ExportClose
    \/ ExportFails

run_monitor_cycle ==
    \/ LoadSources
    \/ LoadFails
    \/ Expand
    \/ LoadKeywords
    \/ Submit
    \/ Aggregate
    \/ export_news_to_csv

\* ------------------------------------------------------------------------
\* The monitor: callers, the cycle and the threads of its pool
\* ------------------------------------------------------------------------

Next ==
    \/ Invoke
    \/ run_monitor_cycle
    \/ \E t \in 1..Len(tasks) : StartTask(t)
    \/ \E t \in 1..Len(tasks) : _run_scraper_target(t)

Spec == Init /\ [][Next]_vars

\* ------------------------------------------------------------------------
\* Workers calling save_news_items concurrently on one news table
\* ------------------------------------------------------------------------

Caller(target, batch) ==
    [NewTask(target) EXCEPT !.pc = "persist", !.filtered = batch,
                            !.stages = <<"persist">>]

InitSave ==
    /\ news \in PriorTables
    /\ \E n \in 1..MaxCallers :
          tasks \in [1..n -> {Caller(tg, b) : tg \in SaveTargets, b \in Batches}]
    /\ monitored_table = <<>>
    /\ keyword_table = <<>>
    /\ csv = [open |-> FALSE, lines |-> CsvOf(news)]
    /\ pc = "Idle"
    /\ max_workers = DefaultMaxWorkers
    /\ monitored_urls = <<>>
    /\ targets = <<>>
    /\ keywords = <<>>
    /\ exp = ExpIdle
    /\ phases = <<>>
    /\ outcome = "none"
    /\ exported = FALSE
    /\ cycleNo = 1
    /\ call = [fn |-> "none"]
    /\ at_start = NoSnapshot
    /\ requests = 0
    /\ TriggersIdle

NextSave == \E t \in 1..Len(tasks) : save_news_items(t)

SpecSave == InitSave /\ [][NextSave]_vars

\* ------------------------------------------------------------------------
\* One call of save_news_items with every kind of default city and uf
\* ------------------------------------------------------------------------

DefaultTargets ==
    {Target("G1", URL_G1_BASE, uf, city) :
        uf \in {NONE, "", "None", "SP"},
        city \in {NONE, "", "None", "Santos"}}

InitDefaults ==
    /\ news \in PriorTables
    /\ tasks \in [1..1 -> {Caller(tg, b) : tg \in DefaultTargets, b \in Batches}]
    /\ monitored_table = <<>>
    /\ keyword_table = <<>>
    /\ csv = [open |-> FALSE, lines |-> CsvOf(news)]
    /\ pc = "Idle"
    /\ max_workers = DefaultMaxWorkers
    /\ monitored_urls = <<>>
    /\ targets = <<>>
    /\ keywords = <<>>
    /\ exp = ExpIdle
    /\ phases = <<>>
    /\ outcome = "none"
    /\ exported = FALSE
    /\ cycleNo = 1
    /\ call = [fn |-> "none"]
    /\ at_start = NoSnapshot
    /\ requests = 0
    /\ TriggersIdle

SpecDefaults == InitDefaults /\ [][NextSave]_vars

\* ------------------------------------------------------------------------
\* Direct calls of the pure functions
\* ------------------------------------------------------------------------

InitPure ==
    /\ news = <<>>
    /\ tasks = <<>>
    /\ monitored_table = <<>>
    /\ keyword_table = <<>>
    /\ csv = [open |-> FALSE, lines |-> CsvOf(news)]
    /\ pc = "Idle"
    /\ max_workers = DefaultMaxWorkers
    /\ monitored_urls = <<>>
    /\ targets = <<>>
    /\ keywords = <<>>
    /\ exp = ExpIdle
    /\ phases = <<>>
    /\ outcome = "none"
    /\ exported = FALSE
    /\ cycleNo = 0
    /\ call = [fn |-> "none"]
    /\ at_start = NoSnapshot
    /\ requests = 0
    /\ TriggersIdle

pureFrame == <<news, dbVars, csv, pc, cycleLocals, tasks, exp, phases,
               outcome, exported, cycleNo, at_start, requests, trigVars, reg>>

CallFilter ==
    /\ \E items \in SeqsUpTo(FilterItems, MaxItems), kws \in KeywordLists :
          call' = [fn |-> "filter", items |-> items, keywords |-> kws,
                   result |-> _filter_by_keywords(items, kws)]
    /\ UNCHANGED pureFrame

CallExpand ==
    /\ \E monitored \in MonitoredInputs :
          call' = [fn |-> "expand", monitored |-> monitored,
                   result |-> _expand_targets_for_monitored(monitored)]
    /\ UNCHANGED pureFrame

NextPure == CallFilter \/ CallExpand

SpecPure == InitPure /\ [][NextPure]_vars

\* ------------------------------------------------------------------------
\* One call of a scraper's fetch_from_url(url, uf, limit), with the site in
\* any condition
\* ------------------------------------------------------------------------

CallFetch ==
    /\ call.fn = "none"
    /\ \E media \in SCRAPER_CLASSES, url \in FetchUrls, uf \in FetchUfs,
          how \in GetPageOutcomes, dom \in FetchPages :
          \E limit \in 0..MaxLimit \cup {DefaultLimit(media)} :
             call' = [fn |-> "fetch", media |-> media, url |-> url,
                      uf |-> uf, limit |-> limit, outcome |-> how,
                      dom |-> dom,
                      result |-> fetch_from_url(media, url, uf, limit, how,
                                                dom, 1)]
    /\ UNCHANGED pureFrame

NextFetch == CallFetch

SpecFetch == InitPure /\ [][NextFetch]_vars

\* ------------------------------------------------------------------------
\* app.py: the management UI changing the tables while the monitor runs
\* ------------------------------------------------------------------------

\* netloc.lower() of the input URLs contains the domain of a national media
infer_media_from_url(url) ==
    IF url.netloc \in {"g1.globo.com"} THEN "G1"
    ELSE IF url.netloc \in {"www.cnnbrasil.com.br"} THEN "CNN Brasil"
    ELSE IF url.netloc \in {"noticias.r7.com"} THEN "R7"
    ELSE NONE

\* the id the table gives to a new row
NextId(table) ==
    LET ids == {table[k].id : k \in 1..Len(table)}
    IN  IF ids = {} THEN 1 ELSE (CHOOSE m \in ids : \A o \in ids : o <= m) + 1

\* session.delete(row) for the row with this id
WithoutId(table, id) == SelectSeq(table, LAMBDA r : r.id # id)

HasId(table, id) == \E k \in 1..Len(table) : table[k].id = id

\* number of requests of the management UI explored
MaxRequests == 1

\* the forms the pages post
KeywordForms == {<<>>, KW_TERREMOTO, Upper(KW_ENCHENTE)}
UrlForm(url, media, uf, city, is_active) ==
    [url |-> url, media |-> media, uf |-> uf, city |-> city,
     is_active |-> is_active]
UrlForms ==
    {UrlForm(URL_G1_RJ, "", "", "Rio", TRUE),
     UrlForm(URL_LOCAL, "Jornal Local", "", "", FALSE),
     UrlForm(URL_G1_BASE, "G1", "SP", "", FALSE)}
RowIds == 1..2

uiFrame == <<news, csv, pc, cycleLocals, tasks, exp, phases, outcome,
             exported, cycleNo, call, at_start>>

Handled ==
    /\ requests < MaxRequests
    /\ requests' = requests + 1
    /\ UNCHANGED <<trigVars, reg>>

\* POST /keywords: a new term, stripped and not yet in the table whatever
\* its case, is added as an active keyword
keywords_post ==
    /\ Handled
    /\ \E term \in KeywordForms :
          keyword_table' =
             IF term # <<>>
                /\ \A k \in 1..Len(keyword_table) :
                       Lower(keyword_table[k].term) # Lower(term)
             THEN Append(keyword_table,
                         KeywordRow(NextId(keyword_table), term, TRUE))
             ELSE keyword_table
    /\ UNCHANGED <<monitored_table, uiFrame>>

\* POST /keywords/<id>/toggle
keyword_toggle ==
    /\ Handled
    /\ \E kw_id \in RowIds :
          keyword_table' =
             [k \in 1..Len(keyword_table) |->
                IF keyword_table[k].id = kw_id
                THEN [keyword_table[k] EXCEPT !.is_active = ~@]
                ELSE keyword_table[k]]
    /\ UNCHANGED <<monitored_table, uiFrame>>

\* POST /keywords/<id>/delete
keyword_delete ==
    /\ Handled
    /\ \E kw_id \in RowIds : keyword_table' = WithoutId(keyword_table, kw_id)
    /\ UNCHANGED <<monitored_table, uiFrame>>

\* POST /urls/<id>/delete
url_delete ==
    /\ Handled
    /\ \E url_id \in RowIds :
          monitored_table' = WithoutId(monitored_table, url_id)
    /\ UNCHANGED <<keyword_table, uiFrame>>

\* POST /media-settings: every source is active exactly when its media is
\* one of those ticked in the form
media_settings ==
    /\ Handled
    /\ \E active_medias \in SUBSET {"G1", "Jornal Local"} :
          monitored_table' =
             [k \in 1..Len(monitored_table) |->
                [monitored_table[k] EXCEPT
                   !.is_active = monitored_table[k].media \in active_medias]]
    /\ UNCHANGED <<keyword_table, uiFrame>>

\* the region a form gives: its uf field, "NONE" standing for no region
FormUf(form) == IF form.uf # "NONE" THEN form.uf ELSE NONE

\* POST /urls/<id>/edit: the row takes the form's url, media (inferred when
\* blank), uf (inferred when blank, kept when nothing is inferred), city and
\* is_active; the commit fails when the url is the one of another row
url_edit ==
    /\ Handled
    /\ \E url_id \in RowIds, form \in UrlForms :
          monitored_table' =
             IF ~HasId(monitored_table, url_id)
                \/ \E k \in 1..Len(monitored_table) :
                       /\ monitored_table[k].id # url_id
                       /\ monitored_table[k].url = form.url
             THEN monitored_table
             ELSE [k \in 1..Len(monitored_table) |->
                     LET row == monitored_table[k]
                     IN  IF row.id # url_id THEN row
                         ELSE [row EXCEPT
                                 !.url = form.url,
                                 !.media =
                                    IF form.media # "" THEN form.media
                                    ELSE PyOr(infer_media_from_url(form.url),
                                              row.media),
                                 !.uf =
                                    IF form.uf # "" THEN FormUf(form)
                                    ELSE PyOr(infer_uf_from_url(form.url),
                                              row.uf),
                                 !.city = PyOr(form.city, NONE),
                                 !.is_active = form.is_active]]
    /\ UNCHANGED <<keyword_table, uiFrame>>

\* POST /urls/new: the row with the form's url is updated, or a new row is
\* added; media and uf are inferred from the url when the form leaves them
\* blank
url_new ==
    /\ Handled
    /\ \E form \in UrlForms :
          LET media == IF form.media # "" THEN form.media
                       ELSE PyOr(infer_media_from_url(form.url), "")
              uf == IF form.uf = ""
                    THEN PyOr(infer_uf_from_url(form.url), NONE)
                    ELSE FormUf(form)
              city == PyOr(form.city, NONE)
          IN  monitored_table' =
                 IF \E k \in 1..Len(monitored_table) :
                       monitored_table[k].url = form.url
                 THEN [k \in 1..Len(monitored_table) |->
                         IF monitored_table[k].url # form.url
                         THEN monitored_table[k]
                         ELSE [monitored_table[k] EXCEPT
                                 !.media = media, !.uf = uf, !.city = city,
                                 !.is_active = form.is_active]]
                 ELSE Append(monitored_table,
                             MonitoredRow(NextId(monitored_table), form.url,
                                          PyOr(media, "DESCONHECIDA"), uf,
                                          city, form.is_active))
    /\ UNCHANGED <<keyword_table, uiFrame>>

\* run_monitor_cycle has just been called by the scheduler in a deployment
\* with one national and one local source and one keyword, all active
InitUI ==
    /\ news = <<>>
    /\ monitored_table =
          <<MonitoredRow(1, URL_G1_BASE, "G1", "SP", NONE, TRUE),
            MonitoredRow(2, URL_LOCAL, "Jornal Local", NONE, "Santos", TRUE)>>
    /\ keyword_table = <<KeywordRow(1, KW_ENCHENTE, TRUE)>>
    /\ csv = [open |-> FALSE, lines |-> CsvOf(news)]
    /\ pc = "LoadingConfig"
    /\ max_workers = DefaultMaxWorkers
    /\ monitored_urls = <<>>
    /\ targets = <<>>
    /\ keywords = <<>>
    /\ tasks = <<>>
    /\ exp = ExpIdle
    /\ phases = <<"LoadingConfig">>
    /\ outcome = "running"
    /\ exported = FALSE
    /\ cycleNo = 1
    /\ call = [fn |-> "none"]
    /\ at_start = NoSnapshot
    /\ requests = 0
    /\ TriggersIdle

\* the cycle, the threads of its pool and the requests of the management UI
NextUI ==
    \/ run_monitor_cycle
    \/ \E t \in 1..Len(tasks) : StartTask(t)
    \/ \E t \in 1..Len(tasks) : _run_scraper_target(t)
    \/ keywords_post
    \/ keyword_toggle
    \/ keyword_delete
    \/ media_settings
    \/ url_delete
    \/ url_edit
    \/ url_new

SpecUI == InitUI /\ [][NextUI]_vars

\* ------------------------------------------------------------------------
\* The triggers of run_monitor_cycle: the interval job of app.create_app,
\* POST /run-monitor, and monitor_daemon.main with its flag file.  The
\* daemon runs until it is interrupted; it is not interrupted here.
\* ------------------------------------------------------------------------

\* number of POST /run-monitor requests the server handles at once
MaxPosts == 2

\* number of times the daemon finds the flag
MaxObservations == 2

trigFrame == <<news, dbVars, csv, pc, cycleLocals, tasks, exp, phases,
               outcome, exported, cycleNo, call, at_start, requests, reg>>

InitTriggers == InitPure

\* scheduler.add_job(run_monitor_cycle, "interval", minutes=30): the job
\* runs in the scheduler's pool; with max_instances left at 1 a firing is
\* skipped while the job's previous run is in progress
SchedulerFires ==
    /\ inflight["scheduler"] = 0
    /\ inflight' = [inflight EXCEPT !["scheduler"] = 1]
    /\ UNCHANGED <<flag, daemon>>
    /\ UNCHANGED trigFrame

\* POST /run-monitor: the thread of the request calls run_monitor_cycle
WebPost ==
    /\ inflight["web"] < MaxPosts
    /\ inflight' = [inflight EXCEPT !["web"] = @ + 1]
    /\ UNCHANGED <<flag, daemon>>
    /\ UNCHANGED trigFrame

\* a call of run_monitor_cycle made by the job or by a request returns
CycleReturns ==
    /\ \E tr \in {"scheduler", "web"} :
          /\ inflight[tr] > 0
          /\ inflight' = [inflight EXCEPT ![tr] = @ - 1]
    /\ UNCHANGED <<flag, daemon>>
    /\ UNCHANGED trigFrame

\* somebody creates trigger_monitor.flag in the logs directory
CreateFlag ==
    /\ flag' = TRUE
    /\ UNCHANGED <<inflight, daemon>>
    /\ UNCHANGED trigFrame

\* if os.path.exists(FLAG_FILE)
DaemonCheck ==
    /\ daemon.pc = "check"
    /\ IF flag
       THEN /\ daemon.seen < MaxObservations
            /\ daemon' = [daemon EXCEPT !.pc = "remove", !.seen = @ + 1]
       ELSE daemon' = [daemon EXCEPT !.pc = "sleep"]
    /\ UNCHANGED <<inflight, flag>>
    /\ UNCHANGED trigFrame

\* os.remove(FLAG_FILE)
DaemonRemove ==
    /\ daemon.pc = "remove"
    /\ flag' = FALSE
    /\ daemon' = [daemon EXCEPT !.pc = "run", !.removed = @ + 1]
    /\ UNCHANGED inflight
    /\ UNCHANGED trigFrame

\* the run started without waiting for it
DaemonRunDetached ==
    /\ daemon.pc = "run"
    /\ inflight' = [inflight EXCEPT !["daemon"] = @ + 1]
    /\ daemon' = [daemon EXCEPT !.pc = "sleep", !.runs = @ + 1]
    /\ UNCHANGED flag
    /\ UNCHANGED trigFrame

\* subprocess.run(command, cwd=parent_dir) starts python -m
\* Scct_News.monitor, whose main calls run_monitor_cycle, and waits for it
DaemonRun ==
    /\ daemon.pc = "run"
    /\ inflight' = [inflight EXCEPT !["daemon"] = @ + 1]
    /\ daemon' = [daemon EXCEPT !.pc = "running", !.runs = @ + 1]
    /\ UNCHANGED flag
    /\ UNCHANGED trigFrame

\* the subprocess ends and subprocess.run returns
DaemonRunReturns ==
    /\ daemon.pc = "running"
    /\ inflight' = [inflight EXCEPT !["daemon"] = @ - 1]
    /\ daemon' = [daemon EXCEPT !.pc = "sleep"]
    /\ UNCHANGED flag
    /\ UNCHANGED trigFrame

\* time.sleep(5), then the next turn of the loop
DaemonSleep ==
    /\ daemon.pc = "sleep"
    /\ daemon' = [daemon EXCEPT !.pc = "check"]
    /\ UNCHANGED <<inflight, flag>>
    /\ UNCHANGED trigFrame

\* monitor_daemon.main
DaemonStep ==
    \/ DaemonCheck
    \/ DaemonRemove
    \/ DaemonRun
    \/ DaemonRunReturns
    \/ DaemonSleep

NextTriggers ==
    \/ SchedulerFires
    \/ WebPost
    \/ CycleReturns
    \/ CreateFlag
    \/ DaemonStep

SpecTriggers == InitTriggers /\ [][NextTriggers]_vars

\* the daemon process keeps running and the run it waits for ends
SpecTriggersFair == SpecTriggers /\ WF_vars(DaemonStep)

\* ------------------------------------------------------------------------
\* scrapers/base_scraper.py: the registry.  A dict is a function from media
\* names to class names; a class is [cls, name], name being its attribute
\* `name` (NONE when it has none).
\* ------------------------------------------------------------------------

\* the classes of the modules of scrapers/, in the order of pkgutil
ModuleClasses ==
    <<[cls |-> "CNNScraper", name |-> "CNN Brasil"],
      [cls |-> "G1Scraper", name |-> "G1"],
      [cls |-> "R7Scraper", name |-> "R7"]>>

\* subclasses of BaseScraper defined elsewhere in the process
OtherClasses ==
    {[cls |-> "G1ScraperV2", name |-> "G1"],
     [cls |-> "FolhaScraper", name |-> "Folha"],
     [cls |-> "ScraperMixin", name |-> NONE]}

\* number of subclasses defined outside scrapers/
MaxDefinitions == 3

\* number of calls of get_scraper_classes
MaxGets == 2

\* _SCRAPER_REGISTRY[cls.name] = cls
Put(dict, c) ==
    [n \in DOMAIN dict \cup {c.name} |-> IF n = c.name THEN c.cls ELSE dict[n]]

\* BaseScraper.__init_subclass__ for class c, on the state r of the registry
Register(r, c) ==
    IF Falsy(c.name) THEN r
    ELSE [r EXCEPT !.dicts[1] = Put(@, c), !.history = Append(@, c)]

RECURSIVE RegisterAll(_, _)
RegisterAll(r, cs) ==
    IF cs = <<>> THEN r ELSE RegisterAll(Register(r, Head(cs)), Tail(cs))

\* _auto_discover_scrapers: import_module of every module of scrapers/; a
\* module already imported is not executed again
Discover(r) ==
    IF r.imported THEN r
    ELSE [RegisterAll(r, ModuleClasses) EXCEPT !.imported = TRUE]

regFrame == <<news, dbVars, csv, pc, cycleLocals, tasks, exp, phases,
              outcome, exported, cycleNo, call, at_start, requests, trigVars>>

\* class C(BaseScraper) is defined
DefineSubclass ==
    /\ Len(SelectSeq(reg.history, LAMBDA c : c \in OtherClasses))
          < MaxDefinitions
    /\ \E c \in OtherClasses : reg' = Register(reg, c)
    /\ reg' # reg
    /\ UNCHANGED regFrame

\* import of a module of scrapers/ (import scrapers.g1_scraper, ...)
ImportModules ==
    /\ ~reg.imported
    /\ reg' = Discover(reg)
    /\ UNCHANGED regFrame

\* get_scraper_classes returning the registry itself
GetScraperClassesNoCopy ==
    /\ Len(reg.returned) < MaxGets
    /\ LET r == Discover(reg)
       IN  reg' = [r EXCEPT !.returned =
                      Append(@, [id |-> 1, value |-> r.dicts[1]])]
    /\ UNCHANGED regFrame

\* get_scraper_classes: _auto_discover_scrapers(), then
\* return dict(_SCRAPER_REGISTRY), a new dict with the same entries
get_scraper_classes ==
    /\ Len(reg.returned) < MaxGets
    /\ LET r == Discover(reg)
           copy == r.dicts[1]
       IN  reg' = [r EXCEPT !.dicts = Append(@, copy),
                            !.returned =
                                Append(@, [id |-> Len(r.dicts) + 1,
                                           value |-> copy])]
    /\ UNCHANGED regFrame

NextRegistry == DefineSubclass \/ ImportModules \/ get_scraper_classes

SpecRegistry == InitPure /\ [][NextRegistry]_vars

\* ------------------------------------------------------------------------
\* Properties
\* ------------------------------------------------------------------------

\* the rows that were in the table before the current call began
PriorUrls == {news[k].url : k \in {j \in 1..Len(news) : news[j].created_at < cycleNo}}

\* the URLs of a task's batch that save_news_items tries to insert
BatchUrls(t) ==
    {tasks[t].filtered[i].url : i \in {j \in 1..Len(tasks[t].filtered) :
                                          ~Falsy(tasks[t].filtered[j].url)}}

\* C1: in every reachable state of the news table, under any interleaving of
\* workers running save_news_items, no two stored News rows have the same url.
C1_UniqueUrls ==
    \A j, k \in 1..Len(news) : j # k => news[j].url # news[k].url

\* C1 witness: two workers of different targets have both finished a batch
\* holding u1, which one of them inserted.
C1_Witness ==
    \E t1, t2 \in 1..Len(tasks) :
        /\ t1 # t2
        /\ tasks[t1].target # tasks[t2].target
        /\ tasks[t1].pc = "done" /\ tasks[t2].pc = "done"
        /\ "u1" \in BatchUrls(t1) \cap BatchUrls(t2)
        /\ "u1" \notin PriorUrls
        /\ "u1" \in StoredUrls(news)

\* C2: when every worker whose batch holds a URL that was not stored before
\* has finished, and none of them met a storage failure other than the
\* uniqueness violation, exactly one row has that URL and none of these
\* calls of save_news_items has raised.
C2_ConcurrentSameUrl ==
    \A u \in {"u1", "u2"} :
        LET callers == {t \in 1..Len(tasks) : u \in BatchUrls(t)}
        IN  ( /\ callers # {}
              /\ u \notin PriorUrls
              /\ \A t \in callers : tasks[t].pc = "done" /\ ~tasks[t].fault )
            => /\ RowsWithUrl(news, u) = 1
               /\ \A t \in callers : tasks[t].result = "ok"

\* C2 witness: two workers with u1 in their batches have finished without a
\* storage failure and u1 was not stored before.
C2_Witness ==
    /\ Len(tasks) = 2
    /\ "u1" \in BatchUrls(1) \cap BatchUrls(2)
    /\ "u1" \notin PriorUrls
    /\ \A t \in 1..2 : tasks[t].pc = "done" /\ ~tasks[t].fault

\* C3: a call of save_news_items whose only failures were uniqueness
\* violations returns without raising, and then every candidate of its batch
\* with a non-empty URL has that URL stored exactly once.
C3_DuplicateIsNoOp ==
    \A t \in 1..Len(tasks) :
        (tasks[t].pc = "done" /\ "persist" \in Range(tasks[t].stages)
           /\ ~tasks[t].fault)
        => /\ tasks[t].result = "ok"
           /\ \A u \in BatchUrls(t) : RowsWithUrl(news, u) = 1

\* C3 witness: a single worker has finished the batch u1, u1, u2 on a table
\* that already held u1: both u1 candidates were duplicates and u2, which
\* follows them, was inserted.
C3_Witness ==
    /\ Len(tasks) = 1
    /\ tasks[1].pc = "done"
    /\ tasks[1].result = "ok"
    /\ tasks[1].filtered = <<IT_U1, IT_U1_ALT, IT_U2>>
    /\ Len(news) = 2
    /\ news[1] = PRIOR_ROW
    /\ news[2].url = "u2"

\* the pool block of the current call has been left
PastBarrier == exported

RaisedResults == {"extract_raised", "persist_raised"}

\* the phases of a full cycle
FULL_CYCLE ==
    <<"LoadingConfig", "Expanding", "Dispatching", "Aggregating", "Exporting">>

\* the stages of a full pipeline
FULL_PIPELINE == <<"extract", "filter", "persist">>

IsPrefix(p, q) == Len(p) <= Len(q) /\ \A i \in 1..Len(p) : p[i] = q[i]

\* C4: in a cycle in which the pipeline of some target raised, once the pool
\* block is left every target has been submitted and has finished, every
\* target with a scraper that did not raise has completed its pipeline with
\* every candidate that survives the keyword filter and has a URL stored, and
\* run_monitor_cycle never raises once it has submitted a target.
C4_IsolationUnderFailure ==
    /\ (tasks # <<>>) => outcome # "raised"
    /\ (PastBarrier /\ \E r \in 1..Len(tasks) : tasks[r].result \in RaisedResults)
       => /\ Len(tasks) = Len(targets)
          /\ AllDone
          /\ \A t \in 1..Len(tasks) :
                (tasks[t].result \notin RaisedResults
                   /\ tasks[t].target.media \in SCRAPER_CLASSES)
                => /\ tasks[t].result = "ok"
                   /\ LET kept == _filter_by_keywords(tasks[t].items, keywords)
                      IN  \A i \in 1..Len(kept) :
                             ~Falsy(kept[i].url)
                             => kept[i].url \in StoredUrls(news)

\* C4 witness: the cycle has returned; the extractor of one target raised
\* and another target inserted an article in this cycle.
C4_Witness ==
    /\ pc = "Idle" /\ outcome = "returned" /\ exported
    /\ \E r, t \in 1..Len(tasks) :
          /\ tasks[r].result = "extract_raised"
          /\ tasks[t].result = "ok"
          /\ \E k \in 1..Len(news) :
                /\ news[k].created_at = cycleNo
                /\ news[k].uf = tasks[t].target.uf
                /\ news[k].url \in BatchUrls(t)

\* C5: export_news_to_csv runs only when every target of the cycle has been
\* submitted and has finished, and the file a completed export leaves has
\* exactly one line for every article stored in the cycle.
C5_FanInBarrier ==
    /\ (pc = "Exporting" \/ exp.pc # "idle")
       => (Len(tasks) = Len(targets) /\ AllDone)
    /\ exp.pc = "done"
       => \A k \in 1..Len(news) :
             news[k].created_at = cycleNo
             => Cardinality({l \in 1..Len(csv.lines) :
                               csv.lines[l] = CsvLine(news[k])}) = 1

\* C5 witness: an export has completed in a cycle in which two targets
\* finished, one raising and one storing an article.
C5_Witness ==
    /\ exp.pc = "done"
    /\ \E k \in 1..Len(news) : news[k].created_at = cycleNo
    /\ \E r \in 1..Len(tasks) : tasks[r].result \in RaisedResults

\* C6 as stated: every cycle that returns normally has passed through
\* Expanding, Dispatching, Aggregating and Exporting, in that order.
C6_AlwaysExports ==
    outcome = "returned" => (exported /\ phases = FULL_CYCLE)

\* C6 amended: the phases of a cycle are entered in the order of FULL_CYCLE;
\* a cycle that returns normally and found an active source has passed
\* through all of them and has invoked the export, and a cycle that found no
\* active source returns from LoadingConfig without exporting.
C6_ExportsIfActiveSource ==
    /\ IsPrefix(phases, FULL_CYCLE)
    /\ outcome = "returned"
       => IF monitored_urls # <<>>
          THEN exported /\ phases = FULL_CYCLE
          ELSE ~exported /\ phases = <<"LoadingConfig">>

\* C6 witness: a cycle with an active source, in which a target raised, has
\* returned.
C6_Witness ==
    /\ outcome = "returned"
    /\ monitored_urls # <<>>
    /\ \E r \in 1..Len(tasks) : tasks[r].result \in RaisedResults

\* C7: at most max_workers pipelines are executing at any moment, and each
\* pipeline goes through extract, filter and persist in that order: the
\* stages begun are a prefix of that sequence ending with the one running,
\* and a pipeline that completes has begun all three.
C7_BoundedConcurrency ==
    /\ Cardinality(Running) <= max_workers
    /\ \A t \in 1..Len(tasks) :
          /\ IsPrefix(tasks[t].stages, FULL_PIPELINE)
          /\ tasks[t].pc \in {"extract", "filter", "persist"}
             => tasks[t].stages # <<>>
                /\ tasks[t].stages[Len(tasks[t].stages)] = tasks[t].pc
          /\ tasks[t].result = "ok" => tasks[t].stages = FULL_PIPELINE

\* C7 witness: with max_workers = 2 and three targets submitted, two
\* pipelines are executing and the third target waits in the queue.
C7_Witness ==
    /\ max_workers = 2
    /\ Len(tasks) = 3
    /\ Cardinality(Running) = 2
    /\ tasks[3].pc = "queued"
    /\ tasks[1].pc = "persist"

\* a candidate's title and summary (a missing one counting as empty) joined
\* with sep between them, in lowercase, contain a lowercased keyword
KeywordIn(item, kws, sep) ==
    \E k \in 1..Len(kws) :
        Contains(Lower(TextOrEmpty(item.title) \o sep \o TextOrEmpty(item.summary)),
                 Lower(kws[k]))

\* the candidates of a sequence, in order, that hold a keyword
RECURSIVE KeptCandidates(_, _, _)
KeptCandidates(items, kws, sep) ==
    IF items = <<>> THEN <<>>
    ELSE (IF KeywordIn(Head(items), kws, sep) THEN <<Head(items)>> ELSE <<>>)
         \o KeptCandidates(Tail(items), kws, sep)

\* C8: _filter_by_keywords(candidates, []) returns the candidates, all of
\* them, in the same order and unaltered.
C8_FailOpen ==
    (call.fn = "filter" /\ call.keywords = <<>>) => call.result = call.items

\* C8 witness: the filter was called with two candidates and no keyword.
C8_Witness ==
    /\ call.fn = "filter"
    /\ call.keywords = <<>>
    /\ Len(call.items) = 2
    /\ Len(call.result) = 2

C10_RegionFanOut ==
    (call.fn = "expand" /\ call.monitored.media \in {"G1", "CNN Brasil", "R7"})
    => LET m == call.monitored
           r == call.result
       IN  IF m.uf \in {NONE, ""}
           THEN /\ Len(r) = 27
                /\ \A i, j \in 1..Len(r) : i # j => r[i] # r[j]
                /\ {r[i].uf : i \in 1..Len(r)} = Range(UF_CODES)
                /\ Cardinality(Range(UF_CODES)) = 27
                /\ \A i \in 1..Len(r) :
                      r[i].media = m.media /\ r[i].url = m.url
                      /\ r[i].city = m.city
           ELSE r = <<[media |-> m.media, url |-> m.url, uf |-> m.uf,
                       city |-> m.city]>>

\* C10 witness: a G1 source without region was expanded into 27 targets.
C10_Witness ==
    /\ call.fn = "expand"
    /\ call.monitored.media = "G1"
    /\ call.monitored.uf = NONE
    /\ call.monitored.city = "Santos"
    /\ Len(call.result) = 27

\* the first segment of a URL's path
FirstPathSegment(url) == FirstSegment(StripSlash(url.path))

IsLetter(c) == c \in Range(UPPERCASE) \cup Range(LOWERCASE)

\* C11: a source of another media expands to exactly one target,
\* whose region is the source's region when set, else the upper-cased first
\* path segment when that segment is made of exactly two letters, else unset.
C11_InfersTwoLetterCode ==
    (call.fn = "expand" /\ call.monitored.media \notin {"G1", "CNN Brasil", "R7"})
    => LET m == call.monitored
           seg == FirstPathSegment(m.url)
       IN  /\ Len(call.result) = 1
           /\ call.result[1].uf =
                 IF m.uf \notin {NONE, ""} THEN m.uf
                 ELSE IF Len(seg) = 2 /\ \A i \in 1..2 : IsLetter(seg[i])
                      THEN Str(Upper(seg))
                      ELSE NONE

\* C12: a storage failure of an insert other than the uniqueness violation
\* ends the call of save_news_items with the exception, which the except of
\* _run_scraper_target catches: the target finishes as raised at the failing
\* candidate, run_monitor_cycle does not raise, and once the pool block is
\* left every sibling target has been submitted and has finished, each
\* sibling with a scraper and no failure of its own having returned normally.
C12_PersistenceErrorSurfaced ==
    /\ \A t \in 1..Len(tasks) :
          tasks[t].fault
          => /\ tasks[t].pc = "done"
             /\ tasks[t].result = "persist_raised"
             /\ tasks[t].i <= Len(tasks[t].filtered)
    /\ (\E t \in 1..Len(tasks) : tasks[t].fault) => outcome # "raised"
    /\ (PastBarrier /\ \E t \in 1..Len(tasks) : tasks[t].fault)
       => /\ Len(tasks) = Len(targets)
          /\ \A s \in 1..Len(tasks) :
                /\ tasks[s].pc = "done"
                /\ (tasks[s].target.media \in SCRAPER_CLASSES
                      /\ tasks[s].result \notin RaisedResults)
                   => tasks[s].result = "ok"

\* C12 witness: the cycle has returned after an insert of one target failed
\* with a storage error and a sibling target stored an article.
C12_Witness ==
    /\ pc = "Idle" /\ outcome = "returned"
    /\ \E r, s \in 1..Len(tasks) :
          /\ tasks[r].fault
          /\ tasks[s].result = "ok"
          /\ \E k \in 1..Len(news) :
                /\ news[k].created_at = cycleNo
                /\ news[k].url \in BatchUrls(s)
                /\ news[k].uf = tasks[s].target.uf

\* the tasks that have called save_news_items
InSave(t) == "persist" \in Range(tasks[t].stages)

\* every candidate of t's batch at a position in js that has a URL is stored
StoredAt(t, js) ==
    \A j \in js \cap 1..Len(tasks[t].filtered) :
        ~Falsy(tasks[t].filtered[j].url)
        => tasks[t].filtered[j].url \in StoredUrls(news)

\* C13 as stated: whatever the reason an insert of a batch failed for, the
\* candidates the call went through stay stored and, when the call has
\* ended, every candidate after the failed one that has a URL is stored.
C13_AnyFailureNeverBlocks ==
    \A t \in 1..Len(tasks) :
        InSave(t)
        => /\ StoredAt(t, 1..(tasks[t].i - 1))
           /\ (tasks[t].pc = "done" /\ tasks[t].fault)
              => StoredAt(t, (tasks[t].i + 1)..Len(tasks[t].filtered))

\* C13 amended: every candidate with a URL that the call has gone through,
\* inserted or refused as a duplicate, is stored and stays stored; a call
\* that met only uniqueness violations goes through the whole batch, and a
\* call that met another storage failure ends at the failing candidate
\* without attempting the candidates after it.
C13_DuplicateNeverBlocks ==
    \A t \in 1..Len(tasks) :
        InSave(t)
        => /\ StoredAt(t, 1..(tasks[t].i - 1))
           /\ (tasks[t].pc = "done" /\ ~tasks[t].fault)
              => tasks[t].i = Len(tasks[t].filtered) + 1
           /\ (tasks[t].pc = "done" /\ tasks[t].fault)
              => /\ tasks[t].i <= Len(tasks[t].filtered)
                 /\ tasks[t].result = "persist_raised"

\* C13 witness: a single call with the batch u1, u1, u2 on a table holding
\* u1 went past the two duplicates and met a storage failure at u2, which
\* is not stored.
C13_Witness ==
    /\ Len(tasks) = 1
    /\ tasks[1].filtered = <<IT_U1, IT_U1_ALT, IT_U2>>
    /\ tasks[1].pc = "done" /\ tasks[1].fault /\ tasks[1].i = 3
    /\ news = <<PRIOR_ROW>>

\* the targets whose media has no registered scraper class
Unregistered(t) == tasks[t].target.media \notin SCRAPER_CLASSES

\* C14: a target whose media has no registered scraper is skipped: its
\* pipeline begins no stage, so it fetches nothing and inserts nothing, and
\* it finishes without raising; run_monitor_cycle does not raise, and once
\* the pool block is left every other target has been submitted and has
\* finished, those with a scraper having invoked their extractor.
C14_UnknownMediaSkipped ==
    /\ \A t \in 1..Len(tasks) :
          Unregistered(t)
          => /\ tasks[t].pc \in {"queued", "resolve", "done"}
             /\ tasks[t].stages = <<>>
             /\ tasks[t].items = <<>> /\ tasks[t].filtered = <<>>
             /\ tasks[t].pc = "done" => tasks[t].result = "skipped"
    /\ (\E t \in 1..Len(tasks) : Unregistered(t)) => outcome # "raised"
    /\ (PastBarrier /\ \E t \in 1..Len(tasks) : Unregistered(t))
       => /\ Len(tasks) = Len(targets)
          /\ \A s \in 1..Len(tasks) :
                /\ tasks[s].pc = "done"
                /\ ~Unregistered(s) => tasks[s].stages # <<>>

\* C14 witness: the cycle has returned with the target of an unregistered
\* media skipped and an article stored by another target.
C14_Witness ==
    /\ pc = "Idle" /\ outcome = "returned"
    /\ \E r, s \in 1..Len(tasks) :
          /\ Unregistered(r) /\ tasks[r].result = "skipped"
          /\ tasks[s].result = "ok"
          /\ \E k \in 1..Len(news) :
                /\ news[k].created_at = cycleNo
                /\ news[k].url \in BatchUrls(s)

\* a step in which export_news_to_csv raises
ExportRaisesStep == exp.pc # "failed" /\ exp'.pc = "failed"

\* C15: no step of the export changes the stored articles, and the step in
\* which the export raises ends run_monitor_cycle with a normal return.
C15_ExportFailureTolerated ==
    [][ /\ pc = "Exporting" => news' = news
        /\ ExportRaisesStep
           => /\ pc = "Exporting"
              /\ pc' = "Idle"
              /\ outcome' = "returned" ]_vars

\* C15 witness: the export of a cycle that stored an article has raised
\* after truncating the file, and the cycle has returned.
C15_Witness ==
    /\ exp.pc = "failed"
    /\ exp.rows # <<>>
    /\ csv.lines = <<>>
    /\ pc = "Idle" /\ outcome = "returned"
    /\ \E k \in 1..Len(news) : news[k].created_at = cycleNo

\* the articles stored by the current cycle
StoredThisCycle == {k \in 1..Len(news) : news[k].created_at = cycleNo}

\* C16: a cycle in which the query of the sources or of the keywords fails
\* raises to its caller having submitted no target, stored no article and
\* not called the export; the caller can invoke run_monitor_cycle again,
\* and the cycle invoked after the failed one, when it finds an active
\* source and returns, has gone through every phase with every target
\* submitted and finished and the export called.
C16_ConfigFailureEndsCycleOnly ==
    /\ outcome = "raised"
       => /\ pc = "Idle"
          /\ tasks = <<>>
          /\ StoredThisCycle = {}
          /\ ~exported /\ exp = ExpIdle
          /\ phases \in {<<"LoadingConfig">>, <<"LoadingConfig", "Expanding">>}
          /\ cycleNo <= MaxCycles => ENABLED Invoke
    /\ (cycleNo > MaxCycles /\ outcome = "returned" /\ monitored_urls # <<>>)
       => /\ phases = FULL_CYCLE
          /\ Len(tasks) = Len(targets) /\ AllDone
          /\ exported

\* C16 witness: the cycle invoked after a cycle that raised on a failed
\* query has stored an article, completed the export and returned.
C16_Witness ==
    /\ cycleNo > MaxCycles
    /\ pc = "Idle" /\ outcome = "returned"
    /\ phases = FULL_CYCLE
    /\ exp.pc = "done"
    /\ StoredThisCycle # {}

\* the current call has read its sources and found some
SourcesRead ==
    pc \in {"Expanding", "LoadingKeywords", "Dispatching", "Aggregating",
            "Exporting"} \/ (pc = "Idle" /\ exported)

\* the current call has read its keywords
KeywordsRead ==
    pc \in {"Dispatching", "Aggregating", "Exporting"}
    \/ (pc = "Idle" /\ exported)

\* the targets dispatched are the expansion of these sources, in order
DispatchedFrom(sources) ==
    /\ targets = ExpandAll(sources)
    /\ \A t \in 1..Len(tasks) : tasks[t].target = targets[t]

\* every worker that has filtered applied this keyword list
FilteredWith(kws) ==
    \A t \in 1..Len(tasks) :
        InSave(t) => tasks[t].filtered = _filter_by_keywords(tasks[t].items, kws)

\* C17 as stated: the sources and the keywords a cycle uses are those that
\* were active when the cycle began (at its first query): the targets
\* dispatched are the expansion of those sources and every worker filters
\* with those keywords, whatever the management UI changes afterwards.
C17_SnapshotAtCycleStart ==
    /\ SourcesRead => monitored_urls = at_start.sources
    /\ KeywordsRead
       => /\ DispatchedFrom(at_start.sources)
          /\ keywords = at_start.keywords
          /\ FilteredWith(at_start.keywords)

\* C17 amended: the sources are those active at the first query of the
\* cycle and the keywords are those active at a second query, made after
\* the expansion and before any target is submitted; once read, neither
\* changes for the rest of the cycle, no request of the management UI
\* changes the targets or the tasks, the targets dispatched are the
\* expansion of the sources read and every worker filters with the keywords
\* read.
C17_SnapshotAtEachQuery ==
    /\ [](/\ SourcesRead => monitored_urls = at_start.sources
          /\ ~KeywordsRead => tasks = <<>>
          /\ KeywordsRead
             => DispatchedFrom(at_start.sources) /\ FilteredWith(keywords))
    /\ [][ /\ (pc = "LoadingKeywords" /\ pc' = "Dispatching")
              => keywords' = ActiveTerms(keyword_table)
           /\ (KeywordsRead /\ pc # "Idle")
              => UNCHANGED <<monitored_urls, targets, keywords>>
           /\ requests' # requests => UNCHANGED <<cycleLocals, tasks>> ]_vars

\* C17 witness: the management UI took the only keyword out of the active
\* ones after the cycle had read it, and a worker then filtered a page of
\* two candidates down to one with the keyword the cycle had read.
C17_Witness ==
    /\ requests > 0
    /\ keywords = <<KW_ENCHENTE>>
    /\ ActiveTerms(keyword_table) = <<>>
    /\ at_start.keywords = keywords
    /\ \E t \in 1..Len(tasks) :
          /\ InSave(t)
          /\ Len(tasks[t].items) = 2
          /\ Len(tasks[t].filtered) = 1

\* number of times a stage appears in the stages a task has begun
Begun(t, stage) ==
    Cardinality({k \in 1..Len(tasks[t].stages) : tasks[t].stages[k] = stage})

\* C18: in a cycle the targets are submitted once each, in the order of the
\* expansion; a task begins each stage at most once, a finished task is
\* never changed or submitted again, whatever its result, and
\* save_news_items only moves forward in its batch, one candidate per
\* attempt.
C18_SingleAttempt ==
    /\ [](/\ Len(tasks) <= Len(targets)
          /\ \A t \in 1..Len(tasks) :
                /\ tasks[t].target = targets[t]
                /\ \A stage \in {"extract", "filter", "persist"} :
                      Begun(t, stage) <= 1)
    /\ [][cycleNo' = cycleNo
          => /\ Len(tasks') \in {Len(tasks), Len(tasks) + 1}
             /\ \A t \in 1..Len(tasks) :
                   /\ tasks[t].pc = "done" => tasks'[t] = tasks[t]
                   /\ tasks[t].pc # "queued" => tasks'[t].pc # "queued"
                   /\ IsPrefix(tasks[t].stages, tasks'[t].stages)
                   /\ (tasks[t].pc = "persist" /\ tasks'[t] # tasks[t])
                      => \/ tasks'[t].i = tasks[t].i + 1
                         \/ tasks'[t].pc = "done" /\ tasks'[t].i = tasks[t].i
         ]_vars

\* C18 witness: the cycle has returned with two targets submitted, one
\* whose extractor raised and one whose insert failed, neither tried again.
C18_Witness ==
    /\ pc = "Idle" /\ outcome = "returned" /\ exported
    /\ Len(tasks) = Len(targets)
    /\ \E r, s \in 1..Len(tasks) :
          /\ tasks[r].result = "extract_raised"
          /\ tasks[r].stages = <<"extract">>
          /\ tasks[s].result = "persist_raised"
          /\ tasks[s].stages = FULL_PIPELINE

\* C19: every step of the monitor, whatever the cycle and the interleaving
\* of its workers, leaves every stored article as it is, attribute by
\* attribute, and at most adds articles after them; so does an insert
\* attempt with the URL of a stored article and other attributes.
C19_ArticlesNeverChange == [][IsPrefix(news, news')]_vars

\* C19 witness: an article stored before the cycle is unchanged after a
\* worker finished a batch holding its URL with another title, and the
\* cycle stored another article.
C19_Witness ==
    /\ Len(news) >= 2
    /\ news[1] = PRIOR_ROW
    /\ \E k \in 2..Len(news) : news[k].created_at = cycleNo
    /\ \E t \in 1..Len(tasks) :
          /\ tasks[t].result = "ok"
          /\ \E j \in 1..Len(tasks[t].filtered) :
                /\ tasks[t].filtered[j].url = PRIOR_ROW.url
                /\ tasks[t].filtered[j].title # PRIOR_ROW.title

\* the URLs of the nodes of a document
Hrefs(dom) == {dom[k].href : k \in 1..Len(dom)}

C21_DistinctAndWithinLimit ==
    call.fn = "fetch" =>
        /\ \A i, j \in 1..Len(call.result.items) :
              call.result.items[i].url = call.result.items[j].url => i = j
        /\ Len(call.result.items) <= call.limit

\* C22: with a region, an extractor fetches another URL than the one it
\* was passed only when that URL is its bare base URL, with or without
\* trailing slashes; without a region it always fetches the URL as passed.
C22_RewritesOnlyBareBase ==
    call.fn = "fetch" =>
        /\ call.uf \in {NONE, ""} => call.result.fetched = call.url
        /\ call.result.fetched # call.url =>
              /\ call.url.netloc = BaseUrl(call.media).netloc
              /\ "scheme" \notin DOMAIN call.url
              /\ \A i \in 1..Len(call.url.path) : call.url.path[i] = "/"

C22_Witness ==
    /\ call.fn = "fetch"
    /\ call.media = "R7"
    /\ call.url = URL_R7_BASE
    /\ call.uf = "rj"
    /\ Str(call.result.fetched.path) = "/rio-de-janeiro"

\* C28: the 27 targets of the fan-out of a national source with no region
\* fetch 27 pairwise distinct page URLs, whatever URL the source has.
C28_FanOutFetchesDistinctPages ==
    (/\ call.fn = "expand"
     /\ call.monitored.media \in NATIONAL_MEDIA
     /\ call.monitored.uf \in {NONE, ""}
     /\ call.monitored.url.netloc = BaseUrl(call.monitored.media).netloc) =>
        Cardinality({FetchUrl(call.result[i].media, call.result[i].url,
                              call.result[i].uf) :
                        i \in 1..Len(call.result)}) = Len(UF_CODES)

\* the value save_news_items is to store for a candidate's own value and
\* the default of the call
StoredValue(own, default) ==
    IF own \notin {NONE, ""} THEN own
    ELSE IF default \in {"", "None"} THEN NONE
    ELSE default

\* C29: every article save_news_items inserts comes from a candidate with a
\* non-empty URL; its region is the candidate's own region when that is not
\* empty, otherwise the default region of the call, a default of "" or
\* "None" being stored as null; the same holds for the locality.
C29_StoredRegionAndLocality ==
    [][Len(news') > Len(news) =>
          \E t \in 1..Len(tasks) :
             /\ InSaveLoop(t)
             /\ tasks'[t].i = tasks[t].i + 1
             /\ LET item == tasks[t].filtered[tasks[t].i]
                    row  == news'[Len(news')]
                IN  /\ item.url \notin {NONE, ""}
                    /\ row.url = item.url
                    /\ row.uf = StoredValue(item.uf, tasks[t].target.uf)
                    /\ row.city = StoredValue(item.city, tasks[t].target.city)]_vars

C29_Witness ==
    /\ tasks[1].target.uf = "None"
    /\ tasks[1].target.city = ""
    /\ tasks[1].filtered = <<IT_EMPTY_URL, IT_U2>>
    /\ tasks[1].i = 3
    /\ \E k \in 1..Len(news) :
          /\ news[k].url = "u2"
          /\ news[k].created_at = cycleNo
          /\ news[k].uf = NONE
          /\ news[k].city = NONE
    /\ "" \notin StoredUrls(news)

\* C23: at every moment, also while export_news_to_csv is running, the
\* export file holds one complete snapshot: the header and one line for
\* every article the table held at some moment (the table only grows, so
\* those articles are a prefix of the table).
C23_ReaderSeesCompleteSnapshot ==
    \E k \in 0..Len(news) : csv.lines = CsvOf(SubSeq(news, 1, k))

\* the number of calls of run_monitor_cycle in progress
InProgress == inflight["scheduler"] + inflight["web"] + inflight["daemon"]

\* C24: over every sequence of triggers (the interval job, POST
\* /run-monitor, the flag-file daemon) at most one call of
\* run_monitor_cycle is in progress at any time.
C24_CyclesDoNotOverlap == InProgress <= 1

LastRegistered(n) ==
    LET ks == {k \in 1..Len(reg.history) : reg.history[k].name = n}
    IN  reg.history[CHOOSE k \in ks : \A j \in ks : j <= k].cls

\* C25: after any sequence of registrations each registered media name
\* maps to the class registered last under it, a registration under a name
\* already registered replacing the entry; and a mapping returned by
\* get_scraper_classes still has the entries it was returned with.
C25_RegistryOverwritesAndCopies ==
    /\ DOMAIN reg.dicts[1] = {reg.history[k].name : k \in 1..Len(reg.history)}
    /\ \A n \in DOMAIN reg.dicts[1] : reg.dicts[1][n] = LastRegistered(n)
    /\ \A k \in 1..Len(reg.returned) :
          reg.dicts[reg.returned[k].id] = reg.returned[k].value

C25_Witness ==
    /\ Len(reg.returned) > 0
    /\ reg.dicts[reg.returned[1].id]["G1"] = "G1Scraper"
    /\ DOMAIN reg.dicts[reg.returned[1].id] = SCRAPER_CLASSES
    /\ reg.dicts[1]["G1"] = "G1ScraperV2"
    /\ "Folha" \in DOMAIN reg.dicts[1]

\* the non-empty URLs of the candidates of task t that pass the filter
PassingUrls(t) ==
    {it.url : it \in Range(_filter_by_keywords(tasks[t].items, keywords))}
        \ {NONE, ""}

\* the barrier of the cycle is passed and no insert met a storage failure
\* other than the uniqueness violation
BarrierPassedNoFault ==
    /\ cycleNo > 0
    /\ pc \in {"Aggregating", "Exporting", "Idle"}
    /\ Len(tasks) = Len(targets)
    /\ AllDone
    /\ \A t \in 1..Len(tasks) : ~tasks[t].fault

\* C26: with the sources, keywords, prior store and extractor outputs of a
\* cycle fixed and no storage failure, the URLs stored after the barrier
\* are the prior URLs and the non-empty URLs of the candidates that pass
\* the keyword filter, whatever the interleaving of the workers.
C26_StoredUrlsDetermined ==
    BarrierPassedNoFault =>
        StoredUrls(news) =
            PriorUrls \cup UNION {PassingUrls(t) : t \in 1..Len(tasks)}

C26_Witness ==
    /\ BarrierPassedNoFault
    /\ PriorUrls = {"u1"}
    /\ \E t1, t2 \in 1..Len(tasks) :
          /\ t1 # t2
          /\ "u2" \in PassingUrls(t1) \cap PassingUrls(t2)
          /\ Len(tasks[t1].items) > Len(tasks[t1].filtered)
    /\ StoredUrls(news) = {"u1", "u2"}

\* the region and locality task t would store for the URL u of its batch
WouldStore(t, u) ==
    LET j == CHOOSE i \in 1..Len(tasks[t].filtered) :
                 tasks[t].filtered[i].url = u
    IN  [uf |-> StoredValue(tasks[t].filtered[j].uf, tasks[t].target.uf),
         city |-> StoredValue(tasks[t].filtered[j].city, tasks[t].target.city)]

\* the tasks of the cycle whose batch holds the URL u
Surfacing(u) == {t \in 1..Len(tasks) : u \in BatchUrls(t)}

\* C27: with the inputs of a cycle fixed, the region and locality stored
\* for an article of the cycle are the same in every interleaving, also
\* when several targets surface its URL with different regions: with two
\* threads or more the first two targets submitted run at once and either
\* may insert first, so the stored values are the ones each of the two
\* would store.
C27_StoredAttributesDetermined ==
    (BarrierPassedNoFault /\ max_workers >= 2) =>
        \A k \in StoredThisCycle :
            \A t \in Surfacing(news[k].url) \cap 1..2 :
                /\ news[k].uf = WouldStore(t, news[k].url).uf
                /\ news[k].city = WouldStore(t, news[k].url).city

\* C27 as it holds: the region and locality stored for an article of the
\* cycle are the ones one of the targets that surfaced its URL would store
\* (the one whose insert succeeded), so they are the same in every
\* interleaving when all these targets would store the same values.
C27_StoredAttributesOfOneTarget ==
    cycleNo > 0 =>
    \A k \in StoredThisCycle :
        \E t \in Surfacing(news[k].url) :
            /\ news[k].uf = WouldStore(t, news[k].url).uf
            /\ news[k].city = WouldStore(t, news[k].url).city

C27_Witness ==
    /\ BarrierPassedNoFault
    /\ max_workers >= 2
    /\ \E k \in StoredThisCycle :
          /\ Surfacing(news[k].url) = {1, 2}
          /\ WouldStore(1, news[k].url).uf = "SP"
          /\ WouldStore(2, news[k].url).uf = "RJ"
          /\ news[k].uf = "RJ"
          /\ news[k].city = "Rio"

====
